---------------------------- MODULE Spec2Model ----------------------------
(***************************************************************************)
(* plyra-guard: action-safety middleware for AI agents.                    *)
(*                                                                         *)
(* The module models the guard facade (ActionGuard._run_pipeline), the     *)
(* evaluation pipeline, the cascade controller, the global budget manager, *)
(* the rate limiter, the audit log with its exporters, the snapshot store  *)
(* with its SQLite rows, the rollback coordinator, the trust ledger, the   *)
(* policy engine, the human gate, the task-context helper and the locks    *)
(* the calls take as state machines.  Each component                       *)
(* has its own group of variables; a specification drives one component    *)
(* (or the facade, which composes them) and leaves the others alone.       *)
(*                                                                         *)
(* Money is counted in units of 0.10 (so 1.00 is 10 and 0.30 is 3), trust  *)
(* scores in steps of 0.05 (so 1.0 is 20), time in ticks of the monotonic  *)
(* clock.                                                                  *)
(***************************************************************************)
EXTENDS Integers, Sequences, FiniteSets, TLC

VARIABLES
    (* CascadeController *)
    active_delegations,   \* _active_delegations: orchestrator -> count
    cc_op,                \* the last CascadeController method called
    cc_intent,            \* the intent handed to the last check
    cc_result,            \* what the last check returned
    (* ActionGuard._worst_verdict, called on its own *)
    wv_results,           \* the result list handed to it
    wv_final,             \* what it returned
    wv_perm,              \* the same results collected in another order
    wv_final_perm,        \* what it returned for that order
    (* EvaluationPipeline *)
    evaluators,           \* _evaluators: the ordered list of evaluators
    (* GlobalBudgetManager *)
    agent_spend,          \* _agent_spend: agent -> spend
    task_spend,           \* _task_spend: task -> spend
    task_agents,          \* _task_agents: task -> agents that spent on it
    (* CostEstimator *)
    ce_agent_spend,       \* _agent_spend of the pipeline's cost estimator
    ce_task_spend,        \* _task_spend of the pipeline's cost estimator
    (* RateLimiter *)
    windows,              \* _windows: (agent, tool) -> timestamps
    agent_windows,        \* _agent_windows: agent -> timestamps
    default_limit,        \* _default_limit: max_calls per period_seconds
    now,                  \* time.monotonic()
    (* AuditLog, SnapshotManager *)
    entries,              \* AuditLog._entries
    snapshots,            \* action_ids with a stored snapshot
    action_log,           \* RollbackCoordinator._action_log, as action_ids
    profiles,             \* TrustLedger._agents: registered agent -> profile
    (* ActionGuard: the guarded calls in flight, one per thread *)
    call,                 \* thread -> the locals of its _run_pipeline call
    next_id,              \* the action_id the next intent gets
    (* History of the run *)
    handed,               \* the intents handed to the guard so far, in order
    overlapped,           \* whether two calls have been in flight at once
    (* Rollback: registry, entry flags, the rollback calls in flight *)
    handlers,             \* RollbackRegistry._handlers: the action types covered
    rolled_back,          \* action_ids whose audit entry has rolled_back = True
    rb,                   \* thread -> the locals of its rollback call
    removed,              \* history: action_ids whose snapshot was removed
    restores,             \* history: action_id -> how many restores succeeded
    (* AuditLog: bound, exporters, the writes in flight *)
    audit_max,            \* AuditLog._max_entries
    exporters,            \* AuditLog._exporters
    exported,             \* exporter -> the entries its export received
    given,                \* history: exporter -> those entries as they were then
    writer,               \* thread -> the locals of its AuditLog.write call
    written,              \* history: the entries appended, in append order
    (* PolicyEngine.evaluate and HumanGate.evaluate, called on their own *)
    pe_policies,          \* PolicyEngine._policies
    hg_requires,          \* what HumanGate._requires_approval returns
    hg_callback,          \* what the approval callback does
    ev_op,                \* the evaluator whose evaluate was called
    ev_result,            \* what it returned
    ev_evaluated,         \* the policies whose condition it evaluated, in order
    (* GlobalBudgetManager called on its own *)
    action_costs,         \* _action_costs: action_id -> (task, agent, cost)
    budget_call,          \* thread -> the locals of its record_cost / add_spend
    charges,              \* history: the costs handed to record_cost / add_spend
    bm_op,                \* the last register_action / recredit / record, and
                          \* what the ledgers held before it
    (* SnapshotManager and its SQLite store, called on their own *)
    sm_snapshots,         \* _snapshots of the capturing manager: id -> Snapshot
    sm_db,                \* the rows of the snapshots table: id -> row
    sm_got,               \* what get returned to a manager built on the same path
    sm_next_id,           \* the action_id of the next intent captured
    sm_max,               \* _max_in_memory
    sm_captured,          \* history: the snapshots captured and not removed
    (* ActionGuard.set_task_context and the protect wrapper *)
    default_agent_id,     \* ActionGuard._default_agent_id
    context_stack,        \* the set_task_context regions entered and not left
    ctx_intent,           \* the intent the wrapper built for the last call
    ctx_region,           \* the region that call was made in
    ctx_left,             \* how the last region was left
    (* The mutexes of the stores and the connections of the snapshot database *)
    lk_held,              \* thread -> the mutexes it holds, in the order it took them
    lk_conn,              \* thread -> whether it has a database connection open
    lk_path,              \* thread -> the steps of the call it is running
    lk_pc,                \* thread -> the step it is at
    lk_runs               \* thread -> the number of calls it has started

cascadeVars == <<active_delegations, cc_op, cc_intent, cc_result>>

verdictVars == <<wv_results, wv_final, wv_perm, wv_final_perm>>

budgetVars == <<agent_spend, task_spend, task_agents>>

costVars == <<ce_agent_spend, ce_task_spend>>

rateVars == <<windows, agent_windows, default_limit, now>>

storeVars == <<entries, snapshots, action_log, profiles>>

callVars == <<call, next_id, handed, overlapped>>

rollbackVars == <<handlers, rolled_back, rb, removed, restores>>

exportVars == <<audit_max, exporters, exported, given, writer, written>>

guardVars == <<evaluators, budgetVars, costVars, rateVars, storeVars, callVars>>

evalVars == <<pe_policies, hg_requires, hg_callback, ev_op, ev_result, ev_evaluated>>

\* The state of the components the specifications call on their own.
managerVars == <<action_costs, budget_call, charges, bm_op>>

persistVars == <<sm_snapshots, sm_db, sm_got, sm_next_id, sm_max, sm_captured>>

contextVars == <<default_agent_id, context_stack, ctx_intent, ctx_region, ctx_left>>

lockVars == <<lk_held, lk_conn, lk_path, lk_pc, lk_runs>>

facadeVars == <<contextVars, lockVars>>

unitVars == <<evalVars, managerVars, persistVars, facadeVars>>

vars == <<cascadeVars, verdictVars, guardVars, rollbackVars, exportVars, unitVars>>

---------------------------------------------------------------------------
(* Data model                                                              *)

Agents == {"a1", "a2", "a3", "a4"}

\* intent.task_id: a task, or None / the empty string (both falsy).
Tasks == {"T"}

NoTask == "none"

\* intent.action_type; the built-in rollback handlers cover file.*, db.*, http.*.
ActionTypes == {"file.write", "api.call"}

\* Verdict (core/verdict.py): the closed enum.
Verdicts == {"ALLOW", "WARN", "BLOCK", "ESCALATE", "DEFER"}

\* Python's None where an EvaluatorResult is optional.
None == [verdict |-> "NONE", reason |-> "", evaluator_name |-> ""]

EvaluatorResult(v, r, n) == [verdict |-> v, reason |-> r, evaluator_name |-> n]

\* Verdict.is_blocking
is_blockingOnlyBlock(v) == v = "BLOCK"

is_blocking(v) == v \in {"BLOCK", "ESCALATE", "DEFER"}

\* Verdict.is_permissive
is_permissive(v) == v \in {"ALLOW", "WARN"}

\* The elements of a sequence, and whether it repeats one.
Range(s) == {s[i] : i \in 1..Len(s)}

HasDuplicate(s) == Cardinality(Range(s)) # Len(s)

---------------------------------------------------------------------------
(* CascadeController (multiagent/cascade_controller.py)                    *)

\* CascadeController(max_delegation_depth=2), as the unit tests build it.
max_depth == 2

\* CascadeController(max_concurrent_delegations=2), as the unit tests build it.
max_concurrent == 2

\* Bound of the model: record_delegation_start is not called beyond this count.
MaxActive == 3

\* Chains up to one hop over the depth limit; only agent_id of each
\* AgentCall is read by the controller.
MaxChainLen == max_depth + 1

CascadeAgents == {"a1", "a2", "a3"}

Chains == UNION {[1..n -> CascadeAgents] : n \in 0..MaxChainLen}

CascadeIntents == [agent_id : CascadeAgents, instruction_chain : Chains]

ReasonDepth == "Delegation depth exceeds maximum"
ReasonCycle == "Cycle detected"
ReasonConcurrent == "concurrent delegations"

\* check, step 3: the concurrent-delegation test on chain[0].agent_id.
ConcurrentCheckOffByOne(chain, active) ==
    IF chain # <<>> /\ active[chain[1]] > max_concurrent
    THEN EvaluatorResult("BLOCK", ReasonConcurrent, "cascade_controller")
    ELSE None

ConcurrentCheck(chain, active) ==
    IF chain # <<>> /\ active[chain[1]] >= max_concurrent
    THEN EvaluatorResult("BLOCK", ReasonConcurrent, "cascade_controller")
    ELSE None

\* check, step 2: the current agent in the chain, or an agent twice in it.
CycleCheckNoDuplicates(intent, active) ==
    LET chain == intent.instruction_chain IN
    IF intent.agent_id \in Range(chain)
    THEN EvaluatorResult("BLOCK", ReasonCycle, "cascade_controller")
    ELSE ConcurrentCheck(chain, active)

CycleCheck(intent, active) ==
    LET chain == intent.instruction_chain IN
    IF intent.agent_id \in Range(chain)
    THEN EvaluatorResult("BLOCK", ReasonCycle, "cascade_controller")
    ELSE IF HasDuplicate(chain)
    THEN EvaluatorResult("BLOCK", ReasonCycle, "cascade_controller")
    ELSE ConcurrentCheck(chain, active)

\* CascadeController.check: depth, then cycles, then concurrent delegations.
CascadeCheck(intent, active) ==
    IF Len(intent.instruction_chain) > max_depth
    THEN EvaluatorResult("BLOCK", ReasonDepth, "cascade_controller")
    ELSE CycleCheck(intent, active)

\* record_delegation_start / record_delegation_end / reset on the counter map
\* (a defaultdict(int): an absent key reads 0).
DelegationStart(active, o) == [active EXCEPT ![o] = @ + 1]

DelegationEnd(active, o) ==
    IF active[o] > 0 THEN [active EXCEPT ![o] = @ - 1] ELSE active

DelegationReset(active) == [o \in Agents |-> 0]

\* get_active_count
get_active_count(o) == active_delegations[o]

InitCascade ==
    /\ active_delegations = [o \in Agents |-> 0]
    /\ cc_op = <<"init">>
    /\ cc_intent = [agent_id |-> "a1", instruction_chain |-> <<>>]
    /\ cc_result = None

CheckCall ==
    \E intent \in CascadeIntents :
        /\ cc_op' = <<"check">>
        /\ cc_intent' = intent
        /\ cc_result' = CascadeCheck(intent, active_delegations)
        /\ UNCHANGED active_delegations

RecordDelegationStart ==
    \E o \in CascadeAgents :
        /\ active_delegations[o] < MaxActive
        /\ active_delegations' = DelegationStart(active_delegations, o)
        /\ cc_op' = <<"start", o>>
        /\ UNCHANGED <<cc_intent, cc_result>>

RecordDelegationEnd ==
    \E o \in CascadeAgents :
        /\ active_delegations' = DelegationEnd(active_delegations, o)
        /\ cc_op' = <<"end", o>>
        /\ UNCHANGED <<cc_intent, cc_result>>

ResetCascade ==
    /\ active_delegations' = DelegationReset(active_delegations)
    /\ cc_op' = <<"reset">>
    /\ UNCHANGED <<cc_intent, cc_result>>

---------------------------------------------------------------------------
(* ActionGuard._worst_verdict (core/guard.py)                              *)

\* Bound of the model: the longest result list handed to _worst_verdict.
MaxResults == 3

\* The priority table of _worst_verdict; a verdict outside it ranks 5.
VerdictPriority(v) ==
    CASE v = "BLOCK" -> 0
      [] v = "ESCALATE" -> 1
      [] v = "DEFER" -> 2
      [] v = "WARN" -> 3
      [] v = "ALLOW" -> 4
      [] OTHER -> 5

\* Python's min(results, key=...): the running best is replaced only by a
\* strictly smaller key, so the first of several minima is returned.
RECURSIVE MinByPriorityLast(_, _, _)
MinByPriorityLast(results, i, best) ==
    IF i > Len(results) THEN best
    ELSE MinByPriorityLast(results, i + 1,
             IF VerdictPriority(results[i].verdict) <= VerdictPriority(best.verdict)
             THEN results[i] ELSE best)

RECURSIVE MinByPriority(_, _, _)
MinByPriority(results, i, best) ==
    IF i > Len(results) THEN best
    ELSE MinByPriority(results, i + 1,
             IF VerdictPriority(results[i].verdict) < VerdictPriority(best.verdict)
             THEN results[i] ELSE best)

\* ActionGuard._worst_verdict
worst_verdict(results) ==
    IF results = <<>>
    THEN EvaluatorResult("ALLOW", "No evaluators ran", "pipeline")
    ELSE MinByPriority(results, 2, results[1])

\* Result lists: the i-th collected result comes from evaluator SpyName[i].
SpyName == <<"e1", "e2", "e3", "e4", "e5">>

ResultLists ==
    UNION {{[i \in 1..n |-> EvaluatorResult(vs[i], "", SpyName[i])] :
              vs \in [1..n -> Verdicts]} : n \in 0..MaxResults}

Orderings(n) == {p \in [1..n -> 1..n] : \A i, j \in 1..n : i # j => p[i] # p[j]}

\* Nothing handed to _worst_verdict yet.
InitVerdict ==
    /\ wv_results = <<>>
    /\ wv_perm = <<>>
    /\ wv_final = None
    /\ wv_final_perm = None

\* The inputs of a run of _worst_verdict: a result list and a reordering of it.
InitVerdictInputs ==
    /\ \E rs \in ResultLists : \E p \in Orderings(Len(rs)) :
           /\ wv_results = rs
           /\ wv_perm = [i \in 1..Len(rs) |-> rs[p[i]]]
    /\ wv_final = None
    /\ wv_final_perm = None

\* _worst_verdict on the result list and on the same results in the other order.
WorstVerdictCall ==
    /\ wv_final = None
    /\ wv_final' = worst_verdict(wv_results)
    /\ wv_final_perm' = worst_verdict(wv_perm)
    /\ UNCHANGED <<wv_results, wv_perm>>
    /\ UNCHANGED <<unitVars, cascadeVars, guardVars, rollbackVars, exportVars>>

---------------------------------------------------------------------------
(* GlobalBudgetManager (multiagent/global_budgeter.py)                     *)

\* GlobalBudgetManager(per_task_budget=1.00), as the integration test sets it.
per_task_budget == 10

\* GlobalBudgetManager(per_agent_per_run=1.00), the config's default.
per_agent_per_run == 10

\* check: the number of contributing agents a task must exceed to be escalated.
gaming_agents == 3

\* check, the budget-gaming test; 0.8 * per_task_budget compared in tenths.
GamingCheck(intent, t_spend, t_agents) ==
    LET task_projected == t_spend[intent.task_id] + intent.estimated_cost
        num_agents == Cardinality(t_agents[intent.task_id])
    IN  IF num_agents > gaming_agents /\ 10 * task_projected > per_task_budget * 8
        THEN EvaluatorResult("ESCALATE", "Potential budget gaming", "global_budgeter")
        ELSE None

\* check, the per-task test; skipped when task_id is None or empty.
TaskBudgetCheckAtCap(intent, t_spend, t_agents) ==
    IF intent.task_id = NoTask THEN None
    ELSE IF t_spend[intent.task_id] + intent.estimated_cost >= per_task_budget
    THEN EvaluatorResult("BLOCK", "Task budget exceeded", "global_budgeter")
    ELSE GamingCheck(intent, t_spend, t_agents)

TaskBudgetCheck(intent, t_spend, t_agents) ==
    IF intent.task_id = NoTask THEN None
    ELSE IF t_spend[intent.task_id] + intent.estimated_cost > per_task_budget
    THEN EvaluatorResult("BLOCK", "Task budget exceeded", "global_budgeter")
    ELSE GamingCheck(intent, t_spend, t_agents)

\* GlobalBudgetManager.check: per-agent cap, then per-task cap, then gaming.
BudgetCheck(intent, a_spend, t_spend, t_agents) ==
    IF a_spend[intent.agent_id] + intent.estimated_cost > per_agent_per_run
    THEN EvaluatorResult("BLOCK", "Agent budget exceeded", "global_budgeter")
    ELSE TaskBudgetCheck(intent, t_spend, t_agents)

\* GlobalBudgetManager.record_cost, one ledger at a time.
RecordAgentSpend(a_spend, agent_id, cost) == [a_spend EXCEPT ![agent_id] = @ + cost]

RecordTaskSpend(t_spend, task_id, cost) ==
    IF task_id = NoTask THEN t_spend ELSE [t_spend EXCEPT ![task_id] = @ + cost]

RecordTaskAgent(t_agents, task_id, agent_id) ==
    IF task_id = NoTask THEN t_agents
    ELSE [t_agents EXCEPT ![task_id] = @ \cup {agent_id}]

get_task_spend(task_id) == task_spend[task_id]

get_agent_spend(agent_id) == agent_spend[agent_id]

get_task_agent_count(task_id) == Cardinality(task_agents[task_id])

---------------------------------------------------------------------------
(* CostEstimator (evaluators/cost_estimator.py)                            *)

\* CostEstimator(escalate_threshold=0.50), the constructor's default.
escalate_threshold == 5

\* CostEstimator.evaluate; the estimator is built with the budget config's caps.
CostEvaluate(intent, a_spend, t_spend) ==
    IF a_spend[intent.agent_id] + intent.estimated_cost > per_agent_per_run
    THEN EvaluatorResult("BLOCK", "Agent budget exceeded", "cost_estimator")
    ELSE IF /\ intent.task_id # NoTask
            /\ t_spend[intent.task_id] + intent.estimated_cost > per_task_budget
    THEN EvaluatorResult("BLOCK", "Task budget exceeded", "cost_estimator")
    ELSE IF intent.estimated_cost > escalate_threshold
    THEN EvaluatorResult("ESCALATE", "Cost exceeds escalation threshold", "cost_estimator")
    ELSE EvaluatorResult("ALLOW", "Cost within budget", "cost_estimator")

---------------------------------------------------------------------------
(* RateLimiter (evaluators/rate_limiter.py)                                *)

\* Resolution of the model's clock: ticks of time.monotonic() per second.
TicksPerSecond == 2

\* Bound of the model: the clock does not advance beyond this tick.
MaxTime == 4

\* RateLimiter(default_limit="2/..."), as the unit tests build it.
rate_max_calls == 2

\* RateLimit.from_string: the period_map entries used here.
PeriodSeconds(period) ==
    CASE period = "sec" -> 1
      [] period = "min" -> 60

RateLimitFromString(n, period) == [max_calls |-> n, period_seconds |-> PeriodSeconds(period)]

\* _SlidingWindow.count_in_window: the pruning; the count is the length left.
Prune(timestamps, window_seconds, clock) ==
    SelectSeq(timestamps, LAMBDA ts : ts > clock - window_seconds * TicksPerSecond)

WindowAddNothing(timestamps, clock) == timestamps

\* _SlidingWindow.add with ts=None
WindowAdd(timestamps, clock) == Append(timestamps, clock)

\* The tests of evaluate on the two counts.
OverLimitStrict(count, limit) == count > limit.max_calls

OverLimit(count, limit) == count >= limit.max_calls

WindowKeys == Agents \X ActionTypes

---------------------------------------------------------------------------
(* AuditLog (observability/audit_log.py), SnapshotManager, registry        *)

\* AuditLog(max_entries=10000), the constructor's default.
max_entries == 10000

\* AuditLog.write, under the lock: append, then keep the newest
\* _max_entries.
AuditWrite(es, entry) ==
    LET a == Append(es, entry) IN
    IF Len(a) > audit_max THEN SubSeq(a, Len(a) - audit_max + 1, Len(a)) ELSE a

AuditEntryNoError(intent, verdict, failed) ==
    [action_id |-> intent.action_id, agent_id |-> intent.agent_id,
     verdict |-> verdict, error |-> FALSE]

\* The entry _record_blocked and ExecutionGate._build_audit create.
AuditEntry(intent, verdict, failed) ==
    [action_id |-> intent.action_id, agent_id |-> intent.agent_id,
     verdict |-> verdict, error |-> failed]

\* The action types of the built-in handlers (file, db, http) that
\* ActionGuard registers by default.
BuiltinHandlers == {"file.write"}

has_handlerAlways(action_type) == TRUE

\* RollbackRegistry.has_handler.
has_handler(action_type) == action_type \in handlers

---------------------------------------------------------------------------
(* TrustLedger (multiagent/trust_ledger.py)                                *)

\* Trust scores are counted in steps of 0.05: 1.0 is 20 steps.
ScoreOne == 20

\* record_violation: the dip of the trust score on a violation, 0.05.
ViolationDip == 1

\* TrustLevel.score: HUMAN 1.0, ORCHESTRATOR 0.8, PEER 0.5, SUB_AGENT 0.3,
\* UNKNOWN 0.0.
TrustLevels == {"HUMAN", "ORCHESTRATOR", "PEER", "SUB_AGENT", "UNKNOWN"}

score(trust_level) ==
    CASE trust_level = "HUMAN" -> 20
      [] trust_level = "ORCHESTRATOR" -> 16
      [] trust_level = "PEER" -> 10
      [] trust_level = "SUB_AGENT" -> 6
      [] OTHER -> 0

\* AgentProfile as register builds it.
AgentProfile(trust_level) ==
    [trust_score |-> score(trust_level), action_count |-> 0, error_count |-> 0,
     violation_count |-> 0]

\* TrustLedger.__init__: no agent registered.
NoProfiles == [a \in {} |-> AgentProfile("UNKNOWN")]

is_registered(ps, agent_id) == agent_id \in DOMAIN ps

\* TrustLedger.get with block_unknown off, as the guard builds its ledger:
\* the stored profile, or a fresh UNKNOWN profile that is stored nowhere.
get(ps, agent_id) ==
    IF is_registered(ps, agent_id) THEN ps[agent_id] ELSE AgentProfile("UNKNOWN")

\* TrustLedger.register: the agent's profile is replaced by a new one.
register(ps, agent_id, trust_level) ==
    [a \in DOMAIN ps \cup {agent_id} |->
        IF a = agent_id THEN AgentProfile(trust_level) ELSE ps[a]]

Min(a, b) == IF a < b THEN a ELSE b

Max(a, b) == IF a > b THEN a ELSE b

\* update_trust_score: max(0.0, min(1.0, trust_score + delta)).
ClampedNoCeiling(s) == Max(0, s)

Clamped(s) == Max(0, Min(ScoreOne, s))

\* A method that changes the profile get returns: the change to a profile
\* that is not stored is lost.
Stored(ps, agent_id, profile) ==
    IF is_registered(ps, agent_id) THEN [ps EXCEPT ![agent_id] = profile] ELSE ps

update_trust_score(ps, agent_id, delta) ==
    LET profile == get(ps, agent_id) IN
    Stored(ps, agent_id, [profile EXCEPT !.trust_score = Clamped(@ + delta)])

\* record_action: action_count, and error_count for a failure.
record_action(ps, agent_id, success) ==
    LET profile == get(ps, agent_id) IN
    Stored(ps, agent_id,
           [profile EXCEPT !.action_count = @ + 1,
                           !.error_count = IF success THEN @ ELSE @ + 1])

\* record_violation: violation_count, and the score dips, not below 0.
record_violationNoFloor(ps, agent_id) ==
    LET profile == get(ps, agent_id) IN
    Stored(ps, agent_id,
           [profile EXCEPT !.violation_count = @ + 1,
                           !.trust_score = @ - ViolationDip])

record_violation(ps, agent_id) ==
    LET profile == get(ps, agent_id) IN
    Stored(ps, agent_id,
           [profile EXCEPT !.violation_count = @ + 1,
                           !.trust_score = Max(0, @ - ViolationDip)])

\* ActionGuard._record_blocked, its last statement: the violation is
\* recorded if the agent is registered.
violation_recorded(ps, agent_id) ==
    IF is_registered(ps, agent_id) THEN record_violation(ps, agent_id) ELSE ps

\* ActionGuard._post_execution, its last statement: the outcome is recorded
\* if the agent is registered.
action_recorded(ps, agent_id, success) ==
    IF is_registered(ps, agent_id) THEN record_action(ps, agent_id, success) ELSE ps

---------------------------------------------------------------------------
(* EvaluationPipeline and ActionGuard._run_pipeline (core/guard.py)        *)

Threads == {"t1", "t2"}

\* Bound of the model: the number of intents handed to the guard in a run.
MaxCalls == 2

\* Where a call stands once it is over: ExecutionBlockedError raised, the
\* operation's value returned, the operation's error re-raised, another
\* exception propagated, or (pipeline.evaluate called directly) list returned.
Terminal == {"refused", "returned", "raised", "failed", "evaluated"}

NoIntent ==
    [action_id |-> 0, agent_id |-> "a1", action_type |-> "api.call",
     task_id |-> NoTask, estimated_cost |-> 0, instruction_chain |-> <<>>]

\* The locals of a call that has not started.
IdleCall ==
    [pc |-> "idle", direct |-> FALSE, intent |-> NoIntent, enable_rollback |-> FALSE,
     i |-> 0, eval_results |-> <<>>, invoked |-> <<>>, final |-> None,
     budget_result |-> None, refused_by |-> None,
     func_calls |-> 0, error |-> FALSE, captured |-> FALSE]

\* An evaluator of the pipeline: name, priority and enabled are the
\* BaseEvaluator properties; returns is the set of verdicts its evaluate can
\* return (ignored for the rate limiter and the cost estimator, whose
\* verdicts are computed from their state).
Evaluator(n, p, e, vs) == [name |-> n, priority |-> p, enabled |-> e, returns |-> vs]

\* ActionGuard._setup_evaluators with schema_validator and risk_scorer turned
\* off in the config: policy engine, rate limiter, cost estimator, and the
\* human gate, which is added disabled.
SetupEvaluators(policy_verdicts) ==
    << Evaluator("policy_engine", 20, TRUE, policy_verdicts),
       Evaluator("rate_limiter", 40, TRUE, {}),
       Evaluator("cost_estimator", 50, TRUE, {}),
       Evaluator("human_gate", 60, FALSE, {"ALLOW", "BLOCK"}) >>

\* EvaluationPipeline.evaluate: the test that ends the loop after a result.
StopsOnBlocking(result) == is_blocking(result.verdict)

Stops(result) == result.verdict = "BLOCK"

\* EvaluationPipeline.evaluate: the loop's position after evaluator i; the
\* loop is over when the list is exhausted.
AfterLoop(c) == IF c.direct THEN "evaluated" ELSE "verdict"

Advance(c, i) == IF i > Len(evaluators) THEN AfterLoop(c) ELSE "evaluate"

\* The loop body after evaluator.evaluate returned result.
Collect(c, result) ==
    [c EXCEPT !.eval_results = Append(@, result),
              !.invoked = Append(@, c.i),
              !.i = c.i + 1,
              !.pc = IF Stops(result) THEN AfterLoop(c) ELSE Advance(c, c.i + 1)]

\* ActionGuard._record_blocked: one audit entry with the refusing verdict.
record_blocked(intent, result) == AuditWrite(entries, AuditEntry(intent, result.verdict, FALSE))

\* Whether a call of another thread is in flight.
OthersInFlight(t) == \E u \in Threads \ {t} : call[u].pc \notin {"idle"} \cup Terminal

\* A guarded call enters _run_pipeline with a fresh intent (action_id is a
\* new uuid) drawn from intents, with enable_rollback drawn from rollbacks.
Begin(t, intents, rollbacks, limit) ==
    /\ call[t].pc \in {"idle"} \cup Terminal
    /\ next_id <= limit
    /\ \E intent \in intents, er \in rollbacks :
           LET started == [intent EXCEPT !.action_id = next_id] IN
           /\ call' = [call EXCEPT ![t] =
                          [IdleCall EXCEPT !.pc = "cascade", !.intent = started,
                                           !.enable_rollback = er]]
           /\ handed' = Append(handed, started)
    /\ next_id' = next_id + 1
    /\ overlapped' = (overlapped \/ OthersInFlight(t))
    /\ UNCHANGED <<evaluators, budgetVars, costVars, rateVars, storeVars>>

\* EvaluationPipeline.evaluate called directly with an intent.
EvaluateCall(t, intents, limit) ==
    /\ call[t].pc \in {"idle"} \cup Terminal
    /\ next_id <= limit
    /\ \E intent \in intents :
           LET started == [intent EXCEPT !.action_id = next_id]
               c == [IdleCall EXCEPT !.direct = TRUE, !.intent = started, !.i = 1]
           IN  /\ call' = [call EXCEPT ![t] = [c EXCEPT !.pc = Advance(c, 1)]]
               /\ handed' = Append(handed, started)
    /\ next_id' = next_id + 1
    /\ overlapped' = (overlapped \/ OthersInFlight(t))
    /\ UNCHANGED <<evaluators, budgetVars, costVars, rateVars, storeVars>>

\* _run_pipeline, "Check cascade limits": a BLOCK result refuses.
CascadeRefusesNever(cascade_result) == FALSE

CascadeRefuses(cascade_result) == cascade_result # None /\ cascade_result.verdict = "BLOCK"

CascadeStage(t) ==
    LET c == call[t]
        cascade_result == CascadeCheck(c.intent, active_delegations)
    IN  /\ c.pc = "cascade"
        /\ IF CascadeRefuses(cascade_result)
           THEN /\ entries' = record_blocked(c.intent, cascade_result)
                /\ profiles' = violation_recorded(profiles, c.intent.agent_id)
                /\ call' = [call EXCEPT ![t].pc = "refused", ![t].refused_by = cascade_result]
           ELSE /\ call' = [call EXCEPT ![t].pc = "budget"]
                /\ UNCHANGED <<entries, profiles>>
        /\ UNCHANGED <<evaluators, budgetVars, costVars, rateVars, snapshots, action_log, next_id, handed, overlapped>>

\* _run_pipeline, "Check global budget": only a BLOCK result refuses.
BudgetRefuses(budget_result) == budget_result # None /\ budget_result.verdict = "BLOCK"

BudgetStage(t) ==
    LET c == call[t]
        budget_result == BudgetCheck(c.intent, agent_spend, task_spend, task_agents)
    IN  /\ c.pc = "budget"
        /\ IF BudgetRefuses(budget_result)
           THEN /\ entries' = record_blocked(c.intent, budget_result)
                /\ profiles' = violation_recorded(profiles, c.intent.agent_id)
                /\ call' = [call EXCEPT ![t].pc = "refused", ![t].budget_result = budget_result,
                                        ![t].refused_by = budget_result]
           ELSE /\ call' = [call EXCEPT ![t].i = 1, ![t].pc = Advance(c, 1),
                                        ![t].budget_result = budget_result]
                /\ UNCHANGED <<entries, profiles>>
        /\ UNCHANGED <<evaluators, budgetVars, costVars, rateVars, snapshots, action_log, next_id, handed, overlapped>>

\* EvaluationPipeline.evaluate, one turn of the loop for an evaluator other
\* than the rate limiter: a disabled evaluator is skipped, an enabled one is
\* invoked and its result collected.
EvaluatorStage(t) ==
    LET c == call[t] IN
    /\ c.pc = "evaluate"
    /\ evaluators[c.i].name # "rate_limiter"
    /\ IF ~evaluators[c.i].enabled
       THEN call' = [call EXCEPT ![t].i = c.i + 1, ![t].pc = Advance(c, c.i + 1)]
       ELSE IF evaluators[c.i].name = "cost_estimator"
       THEN call' = [call EXCEPT ![t] =
                        Collect(c, CostEvaluate(c.intent, ce_agent_spend, ce_task_spend))]
       ELSE \E v \in evaluators[c.i].returns :
                call' = [call EXCEPT ![t] =
                            Collect(c, EvaluatorResult(v, "", evaluators[c.i].name))]
    /\ UNCHANGED <<evaluators, budgetVars, costVars, rateVars, storeVars, next_id, handed, overlapped>>

\* RateLimiter.evaluate, "Check per-tool limit": count_in_window prunes the
\* (agent, tool) window and the count is tested.
RateToolStage(t) ==
    LET c == call[t]
        key == <<c.intent.agent_id, c.intent.action_type>>
        pruned == Prune(windows[key], default_limit.period_seconds, now)
    IN  /\ c.pc = "evaluate"
        /\ evaluators[c.i].name = "rate_limiter"
        /\ IF ~evaluators[c.i].enabled
           THEN /\ call' = [call EXCEPT ![t].i = c.i + 1, ![t].pc = Advance(c, c.i + 1)]
                /\ UNCHANGED windows
           ELSE /\ windows' = [windows EXCEPT ![key] = pruned]
                /\ IF OverLimit(Len(pruned), default_limit)
                   THEN call' = [call EXCEPT ![t] =
                            Collect(c, EvaluatorResult("BLOCK", "Rate limit exceeded", "rate_limiter"))]
                   ELSE call' = [call EXCEPT ![t].pc = "rate_agent"]
        /\ UNCHANGED <<evaluators, budgetVars, costVars, agent_windows, default_limit,
                       now, storeVars, next_id, handed, overlapped>>

\* RateLimiter.evaluate, "Check per-agent limit".
RateAgentStage(t) ==
    LET c == call[t]
        pruned == Prune(agent_windows[c.intent.agent_id], default_limit.period_seconds, now)
    IN  /\ c.pc = "rate_agent"
        /\ agent_windows' = [agent_windows EXCEPT ![c.intent.agent_id] = pruned]
        /\ IF OverLimit(Len(pruned), default_limit)
           THEN call' = [call EXCEPT ![t] =
                    Collect(c, EvaluatorResult("BLOCK", "Agent rate limit exceeded", "rate_limiter"))]
           ELSE call' = [call EXCEPT ![t].pc = "rate_record"]
        /\ UNCHANGED <<evaluators, budgetVars, costVars, windows, default_limit,
                       now, storeVars, next_id, handed, overlapped>>

\* RateLimiter.evaluate, "Record this action" and the ALLOW result.
RateRecordStage(t) ==
    LET c == call[t]
        key == <<c.intent.agent_id, c.intent.action_type>>
    IN  /\ c.pc = "rate_record"
        /\ windows' = [windows EXCEPT ![key] = WindowAdd(@, now)]
        /\ agent_windows' = [agent_windows EXCEPT ![c.intent.agent_id] = WindowAdd(@, now)]
        /\ call' = [call EXCEPT ![t] =
                       Collect(c, EvaluatorResult("ALLOW", "Rate limits OK", "rate_limiter"))]
        /\ UNCHANGED <<evaluators, budgetVars, costVars, default_limit, now,
                       storeVars, next_id, handed, overlapped>>

\* _run_pipeline, _worst_verdict and "Handle blocking verdicts".
VerdictStage(t) ==
    LET c == call[t]
        final == worst_verdict(c.eval_results)
    IN  /\ c.pc = "verdict"
        /\ IF is_blocking(final.verdict)
           THEN /\ entries' = record_blocked(c.intent, final)
                /\ profiles' = violation_recorded(profiles, c.intent.agent_id)
                /\ call' = [call EXCEPT ![t].pc = "refused", ![t].final = final,
                                        ![t].refused_by = final]
           ELSE /\ call' = [call EXCEPT ![t].final = final,
                               ![t].pc = IF c.enable_rollback THEN "snapshot" ELSE "execute"]
                /\ UNCHANGED <<entries, profiles>>
        /\ UNCHANGED <<evaluators, budgetVars, costVars, rateVars, snapshots, action_log, next_id, handed, overlapped>>

\* _run_pipeline, "Capture snapshot before execution": SnapshotManager.capture
\* returns None without a handler; the handler's capture copies state and an
\* exception it raises is caught nowhere on the way out of _run_pipeline.
SnapshotStage(t) ==
    LET c == call[t] IN
    /\ c.pc = "snapshot"
    /\ IF ~has_handler(c.intent.action_type)
       THEN /\ call' = [call EXCEPT ![t].pc = "execute"]
            /\ UNCHANGED snapshots
       ELSE \E capture_raises \in BOOLEAN :
                IF capture_raises
                THEN /\ call' = [call EXCEPT ![t].pc = "failed"]
                     /\ UNCHANGED snapshots
                ELSE /\ call' = [call EXCEPT ![t].pc = "execute", ![t].captured = TRUE]
                     /\ snapshots' = snapshots \cup {c.intent.action_id}
    /\ UNCHANGED <<evaluators, budgetVars, costVars, rateVars, entries, action_log, profiles, next_id, handed, overlapped>>

\* ExecutionGate.execute: a blocking verdict is not executed; otherwise func
\* is called once and an Exception it raises is kept in the result. outcomes
\* says whether the operations of the run may raise.
ExecuteStage(t, outcomes) ==
    LET c == call[t] IN
    /\ c.pc = "execute"
    /\ IF is_blocking(c.final.verdict)
       THEN call' = [call EXCEPT ![t].pc = "post"]
       ELSE \E func_raises \in outcomes :
                call' = [call EXCEPT ![t].pc = "post", ![t].func_calls = @ + 1,
                                     ![t].error = func_raises]
    /\ UNCHANGED <<evaluators, budgetVars, costVars, rateVars, storeVars, next_id, handed, overlapped>>

\* _post_execution and the end of _run_pipeline: the audit entry is written
\* and recorded with the rollback coordinator (record_action), a positive
\* estimated cost is recorded in the budget manager and in the cost
\* estimator, and the operation's error is re-raised.
PostStage(t) ==
    LET c == call[t]
        intent == c.intent
        cost == intent.estimated_cost
    IN  /\ c.pc = "post"
        /\ entries' = AuditWrite(entries, AuditEntry(intent, c.final.verdict, c.error))
        /\ action_log' = Append(action_log, intent.action_id)
        /\ profiles' = action_recorded(profiles, intent.agent_id, ~c.error)
        /\ IF cost > 0
           THEN /\ agent_spend' = RecordAgentSpend(agent_spend, intent.agent_id, cost)
                /\ task_spend' = RecordTaskSpend(task_spend, intent.task_id, cost)
                /\ task_agents' = RecordTaskAgent(task_agents, intent.task_id, intent.agent_id)
                /\ ce_agent_spend' = RecordAgentSpend(ce_agent_spend, intent.agent_id, cost)
                /\ ce_task_spend' = RecordTaskSpend(ce_task_spend, intent.task_id, cost)
           ELSE UNCHANGED <<budgetVars, costVars>>
        /\ call' = [call EXCEPT ![t].pc = IF c.error THEN "raised" ELSE "returned"]
        /\ UNCHANGED <<evaluators, rateVars, snapshots, next_id, handed, overlapped>>

---------------------------------------------------------------------------
(* EvaluationPipeline.add / remove, and the clock                          *)

\* Bound of the model: add is not called on a pipeline of this many evaluators.
MaxEvaluators == 3

\* Spy evaluators: a name, its priority, and any verdict as its answer.
SpyPriority(n) ==
    CASE n = "e1" -> 10
      [] n = "e2" -> 20
      [] n = "e3" -> 30

Spies == {Evaluator(n, SpyPriority(n), e, Verdicts) : n \in {"e1", "e2", "e3"}, e \in BOOLEAN}

\* list.insert(index, x) for 0 <= index; an index past the end appends.
Insert(s, index, x) ==
    IF index >= Len(s) THEN Append(s, x)
    ELSE SubSeq(s, 1, index) \o <<x>> \o SubSeq(s, index + 1, Len(s))

\* list.sort(key=lambda e: e.priority): a stable sort.
RECURSIVE SortByPriority(_)
SortByPriority(s) ==
    IF s = <<>> THEN <<>>
    ELSE LET m == CHOOSE i \in 1..Len(s) :
                      /\ \A j \in 1..Len(s) : s[i].priority <= s[j].priority
                      /\ \A j \in 1..(i - 1) : s[j].priority # s[i].priority
         IN  <<s[m]>> \o SortByPriority(SubSeq(s, 1, m - 1) \o SubSeq(s, m + 1, Len(s)))

\* The index of the first evaluator named target, 0 when there is none.
IndexOf(s, target) ==
    IF \E i \in 1..Len(s) : s[i].name = target
    THEN CHOOSE i \in 1..Len(s) :
             s[i].name = target /\ \A j \in 1..(i - 1) : s[j].name # target
    ELSE 0

\* The position argument of add: None, an integer index, "after_<name>" or
\* "before_<name>".
Positions ==
    {[kind |-> "none", index |-> 0, target |-> ""]}
        \cup {[kind |-> "int", index |-> k, target |-> ""] : k \in 0..MaxEvaluators}
        \cup {[kind |-> k, index |-> 0, target |-> n] :
                  k \in {"after", "before"}, n \in {"e1", "e2", "e3"}}

\* EvaluationPipeline.add: the relative positions return right after the
\* insert when the target is found; every other path ends in the sort.
PipelineAddOp(s, evaluator, position) ==
    LET at == IndexOf(s, position.target) IN
    IF position.kind = "int"
    THEN SortByPriority(Insert(s, position.index, evaluator))
    ELSE IF position.kind = "after"
    THEN IF at > 0 THEN Insert(s, at, evaluator)
         ELSE SortByPriority(Append(s, evaluator))
    ELSE IF position.kind = "before"
    THEN IF at > 0 THEN Insert(s, at - 1, evaluator)
         ELSE SortByPriority(Append(s, evaluator))
    ELSE SortByPriority(Append(s, evaluator))

\* EvaluationPipeline.remove
PipelineRemoveOp(s, evaluator_name) == SelectSeq(s, LAMBDA e : e.name # evaluator_name)

\* add and remove are called between evaluations; the locals of the
\* evaluations that are over are gone by then.
NoneInFlight == \A t \in Threads : call[t].pc \in {"idle"} \cup Terminal

PipelineAdd ==
    /\ NoneInFlight
    /\ Len(evaluators) < MaxEvaluators
    /\ \E evaluator \in Spies, position \in Positions :
           evaluators' = PipelineAddOp(evaluators, evaluator, position)
    /\ call' = [t \in Threads |-> IdleCall]
    /\ UNCHANGED <<budgetVars, costVars, rateVars, storeVars, next_id, handed, overlapped>>

PipelineRemove ==
    /\ NoneInFlight
    /\ \E evaluator_name \in {"e1", "e2", "e3"} :
           evaluators' = PipelineRemoveOp(evaluators, evaluator_name)
    /\ call' = [t \in Threads |-> IdleCall]
    /\ UNCHANGED <<budgetVars, costVars, rateVars, storeVars, next_id, handed, overlapped>>

\* time.monotonic() advances.
Tick ==
    /\ now < MaxTime
    /\ now' = now + 1
    /\ UNCHANGED <<evaluators, budgetVars, costVars, windows, agent_windows,
                   default_limit, storeVars, callVars>>

---------------------------------------------------------------------------
(* RollbackCoordinator (rollback/coordinator.py), SnapshotManager,         *)
(* RollbackRegistry                                                        *)

\* The audit entry recorded for an action carries the fields of its intent
\* (ExecutionGate._build_audit); action_ids are handed out in order.
EntryOf(action_id) == handed[action_id]

\* intent.timestamp, the time the intent was created: later intents have
\* later timestamps.
Timestamp(action_id) == action_id

\* What a handler's restore can do: return True, return False, or raise.
RestoreOutcomes == {"ok", "false", "raise"}

\* RollbackReport(task_id): no actions, three empty lists.
RollbackReport(task_id, total) ==
    [task_id |-> task_id, total_actions |-> total, rolled_back |-> <<>>,
     failed |-> <<>>, skipped |-> <<>>]

\* rollback_last called without an agent_id (None, or "": both are falsy).
NoAgent == ""

\* The locals of a rollback call: which method, the arguments of
\* rollback_last, the entries left to go through, the action_id
\* rollback_action is working on, the booleans collected by rollback_last,
\* the report of rollback_task.
IdleRollback ==
    [pc |-> "idle", op |-> "none", n |-> 0, agent_id |-> NoAgent,
     queue |-> <<>>, action_id |-> 0,
     results |-> <<>>, report |-> RollbackReport(NoTask, 0)]

Reverse(s) == [k \in 1..Len(s) |-> s[Len(s) + 1 - k]]

\* entries[:n]
Take(s, n) == SubSeq(s, 1, IF n < Len(s) THEN n ELSE Len(s))

\* list.sort(key=timestamp, reverse=True): stable, newest first.
RECURSIVE SortByTimestampDesc(_)
SortByTimestampDesc(s) ==
    IF s = <<>> THEN <<>>
    ELSE LET x == s[Len(s)]
             front == SortByTimestampDesc(SubSeq(s, 1, Len(s) - 1))
             before == SelectSeq(front, LAMBDA y : Timestamp(y) >= Timestamp(x))
             after == SelectSeq(front, LAMBDA y : Timestamp(y) < Timestamp(x))
         IN  before \o <<x>> \o after

\* rollback_last: the newest n entries of the log, of agent_id if one is
\* given.
LastEntries(log, n, agent_id) ==
    LET rev == Reverse(log)
        mine == IF agent_id # NoAgent
                THEN SelectSeq(rev, LAMBDA a : EntryOf(a).agent_id = agent_id)
                ELSE rev
    IN  Take(mine, n)

\* rollback_task: the entries of the task, newest first.
TaskEntries(log, task_id) ==
    SortByTimestampDesc(SelectSeq(log, LAMBDA a : EntryOf(a).task_id = task_id))

RollbackIdle(t) == rb[t].pc \in {"idle", "done"}

\* ActionGuard.rollback(action_id): rollback_action on that id.
RollbackCall(t, ids) ==
    /\ RollbackIdle(t)
    /\ \E action_id \in ids :
           rb' = [rb EXCEPT ![t] = [IdleRollback EXCEPT !.pc = "get", !.op = "rollback",
                                                        !.action_id = action_id]]
    /\ UNCHANGED <<handlers, rolled_back, removed, restores, guardVars>>

\* ActionGuard.rollback_last(n, agent_id).
RollbackLastCall(t, counts, agents) ==
    /\ RollbackIdle(t)
    /\ \E n \in counts, agent_id \in agents :
           rb' = [rb EXCEPT ![t] = [IdleRollback EXCEPT !.pc = "next", !.op = "last",
                                        !.n = n, !.agent_id = agent_id,
                                        !.queue = LastEntries(action_log, n, agent_id)]]
    /\ UNCHANGED <<handlers, rolled_back, removed, restores, guardVars>>

\* ActionGuard.rollback_task(task_id).
RollbackTaskCall(t, tasks) ==
    /\ RollbackIdle(t)
    /\ \E task_id \in tasks :
           LET task_entries == TaskEntries(action_log, task_id) IN
           rb' = [rb EXCEPT ![t] = [IdleRollback EXCEPT !.pc = "next", !.op = "task",
                                        !.queue = task_entries,
                                        !.report = RollbackReport(task_id, Len(task_entries))]]
    /\ UNCHANGED <<handlers, rolled_back, removed, restores, guardVars>>

TaskSkipsFlagged(action_id) == action_id \in rolled_back

\* rollback_task skips an entry that is flagged rolled_back or whose action
\* type has no handler.
TaskSkips(action_id) ==
    action_id \in rolled_back \/ ~has_handler(EntryOf(action_id).action_type)

\* The head of the loop of rollback_last and rollback_task.
RollbackNext(t) ==
    LET c == rb[t] IN
    /\ c.pc = "next"
    /\ IF c.queue = <<>>
       THEN rb' = [rb EXCEPT ![t].pc = "done"]
       ELSE LET action_id == Head(c.queue) IN
            IF c.op = "task" /\ TaskSkips(action_id)
            THEN rb' = [rb EXCEPT ![t].queue = Tail(c.queue),
                                  ![t].report.skipped = Append(@, action_id)]
            ELSE rb' = [rb EXCEPT ![t].pc = "get", ![t].action_id = action_id,
                                  ![t].queue = Tail(c.queue)]
    /\ UNCHANGED <<handlers, rolled_back, removed, restores, guardVars>>

\* What the caller of rollback_action does with its result: rollback hands
\* it back, rollback_last collects it, rollback_task files the action_id
\* under rolled_back or failed.
Returned(c, success) ==
    IF c.op = "rollback"
    THEN [c EXCEPT !.pc = "done", !.results = <<success>>]
    ELSE IF c.op = "last"
    THEN [c EXCEPT !.pc = "next", !.results = Append(@, success)]
    ELSE IF success
    THEN [c EXCEPT !.pc = "next", !.report.rolled_back = Append(@, c.action_id)]
    ELSE [c EXCEPT !.pc = "next", !.report.failed = Append(@, c.action_id)]

\* entry.rolled_back = True: rollback_last and rollback_task set it after a
\* successful rollback_action, rollback_action itself does not.
FlagAfter(c, success) ==
    IF success /\ c.op \in {"last", "task"}
    THEN rolled_back \cup {c.action_id}
    ELSE rolled_back

\* rollback_action, SnapshotManager.get: no snapshot returns False.
RollbackGet(t) ==
    LET c == rb[t] IN
    /\ c.pc = "get"
    /\ IF c.action_id \in snapshots
       THEN rb' = [rb EXCEPT ![t].pc = "restore"]
       ELSE rb' = [rb EXCEPT ![t] = Returned(c, FALSE)]
    /\ UNCHANGED <<handlers, rolled_back, removed, restores, guardVars>>

AfterRestorePropagates(c, outcome) ==
    IF outcome = "ok" THEN [c EXCEPT !.pc = "remove"]
    ELSE IF outcome = "raise" THEN [c EXCEPT !.pc = "raised"]
    ELSE Returned(c, FALSE)

\* rollback_action, the try around handler.restore: a restore that succeeded
\* goes on to remove the snapshot, one that returned False or raised makes
\* rollback_action return False.
AfterRestore(c, outcome) ==
    IF outcome = "ok" THEN [c EXCEPT !.pc = "remove"] ELSE Returned(c, FALSE)

\* rollback_action, has_handler and handler.restore(snapshot): without a
\* handler the result is False.
RollbackRestore(t) ==
    LET c == rb[t] IN
    /\ c.pc = "restore"
    /\ IF ~has_handler(EntryOf(c.action_id).action_type)
       THEN /\ rb' = [rb EXCEPT ![t] = Returned(c, FALSE)]
            /\ UNCHANGED restores
       ELSE \E outcome \in RestoreOutcomes :
                /\ rb' = [rb EXCEPT ![t] = AfterRestore(c, outcome)]
                /\ restores' = IF outcome # "ok" THEN restores
                               ELSE IF c.action_id \in DOMAIN restores
                               THEN [restores EXCEPT ![c.action_id] = @ + 1]
                               ELSE restores @@ (c.action_id :> 1)
    /\ UNCHANGED <<handlers, rolled_back, removed, guardVars>>

\* rollback_action after a restore that succeeded: SnapshotManager.remove,
\* return True.
RollbackRemove(t) ==
    LET c == rb[t] IN
    /\ c.pc = "remove"
    /\ snapshots' = snapshots \ {c.action_id}
    /\ removed' = removed \cup {c.action_id}
    /\ rb' = [rb EXCEPT ![t] = Returned(c, TRUE)]
    /\ rolled_back' = FlagAfter(c, TRUE)
    /\ UNCHANGED <<handlers, restores, evaluators, budgetVars, costVars, rateVars,
                   entries, action_log, profiles, callVars>>

\* A rollback call is over and its locals are gone.
RollbackReturn(t) ==
    /\ rb[t].pc = "done"
    /\ rb' = [rb EXCEPT ![t] = IdleRollback]
    /\ UNCHANGED <<handlers, rolled_back, removed, restores, guardVars>>

\* SnapshotManager.clear.
SnapshotClear ==
    /\ snapshots' = {}
    /\ removed' = removed \cup snapshots
    /\ UNCHANGED <<handlers, rolled_back, rb, restores, evaluators, budgetVars, costVars,
                   rateVars, entries, action_log, profiles, callVars>>

\* SnapshotManager.cleanup: the snapshots captured before the cutoff go.
SnapshotCleanup ==
    /\ \E cutoff \in 1..next_id :
           LET old == {a \in snapshots : Timestamp(a) < cutoff} IN
           /\ snapshots' = snapshots \ old
           /\ removed' = removed \cup old
    /\ UNCHANGED <<handlers, rolled_back, rb, restores, evaluators, budgetVars, costVars,
                   rateVars, entries, action_log, profiles, callVars>>

\* RollbackRegistry.clear.
RegistryClear ==
    /\ handlers' = {}
    /\ UNCHANGED <<rolled_back, rb, removed, restores, guardVars>>

---------------------------------------------------------------------------
(* AuditLog.write with exporters                                           *)

\* The exporters an application may register.
ExporterNames == {"x1", "x2"}

\* Parameter values: a string, a nested dict, or a list.
Str(v) == [kind |-> "str", v |-> v]
Dict(d) == [kind |-> "dict", d |-> d]
List(l) == [kind |-> "list", l |-> l]

Redacted == Str("***REDACTED***")

\* ExecutionGate._sanitize_params, sensitive_keys.
sensitive_keys ==
    {"password", "secret", "token", "api_key", "apikey", "credential",
     "private_key", "access_token", "refresh_token", "auth"}

\* str.lower() on the keys the model uses.
Lower(key) ==
    CASE key = "Token" -> "token"
      [] key = "PASSWORD" -> "password"
      [] OTHER -> key

\* ExecutionGate._sanitize_params: a sensitive key is redacted, a dict value
\* is sanitized in turn, any other value (a list too) is kept as it is.
RECURSIVE sanitize_params(_)
sanitize_params(params) ==
    [key \in DOMAIN params |->
        IF Lower(key) \in sensitive_keys THEN Redacted
        ELSE IF params[key].kind = "dict" THEN Dict(sanitize_params(params[key].d))
        ELSE params[key]]

\* The parameters of the audit entry of a call: ExecutionGate._build_audit
\* sanitizes them for a call that was executed (allowed or errored),
\* _record_blocked copies intent.parameters for a call that was refused.
EntryParameters(outcome, params) ==
    IF outcome = "refused" THEN params ELSE sanitize_params(params)

\* The locals of a write: the method, the entry, the slice computed by the
\* eviction, the exporter the loop has reached and how many exports raised.
IdleWriter ==
    [pc |-> "idle", method |-> "write", entry |-> [action_id |-> 0],
     slice |-> <<>>, i |-> 0, failures |-> 0]

\* write holds _sync_lock, append_async holds _lock, from the append to the
\* end of the eviction.
Locked(method) ==
    \E u \in Threads : writer[u].method = method /\ writer[u].pc \in {"evict", "store"}

\* AuditLog.add_exporter, while the application is configured.
AddExporter(limit) ==
    /\ \A t \in Threads : writer[t].pc \in {"idle", "done"}
    /\ Len(exporters) < limit
    /\ \E x \in ExporterNames \ Range(exporters) : exporters' = Append(exporters, x)
    /\ UNCHANGED <<audit_max, exported, given, writer, written, guardVars, rollbackVars>>

\* write / append_async: the lock is taken and the entry appended. The
\* entry is the one of a call with the given outcome and parameters.
WriteAppend(t, methods, outcomes, parameters, limit) ==
    /\ writer[t].pc \in {"idle", "done"}
    /\ next_id <= limit
    /\ \E method \in methods, outcome \in outcomes, params \in parameters :
           LET entry == [action_id |-> next_id,
                         parameters |-> EntryParameters(outcome, params)]
           IN  /\ ~Locked(method)
               /\ entries' = Append(entries, entry)
               /\ written' = Append(written, entry)
               /\ handed' = Append(handed, [action_id |-> next_id, outcome |-> outcome,
                                            parameters |-> params])
               /\ writer' = [writer EXCEPT ![t] =
                                [IdleWriter EXCEPT !.pc = "evict", !.method = method,
                                                   !.entry = entry]]
    /\ next_id' = next_id + 1
    /\ UNCHANGED <<audit_max, exporters, exported, given, rollbackVars, evaluators, budgetVars,
                   costVars, rateVars, snapshots, action_log, profiles, call, overlapped>>

\* The next step of a write once the lock is released: the exporters, if
\* there are any.
Forward == IF exporters = <<>> THEN "done" ELSE "export"

\* "Evict oldest if over limit": the newest _max_entries are sliced out of
\* the list, or the lock is released.
WriteEvict(t) ==
    LET w == writer[t] IN
    /\ w.pc = "evict"
    /\ IF Len(entries) > audit_max
       THEN writer' = [writer EXCEPT ![t].pc = "store",
                          ![t].slice = SubSeq(entries, Len(entries) - audit_max + 1,
                                              Len(entries))]
       ELSE writer' = [writer EXCEPT ![t].pc = Forward, ![t].i = 1]
    /\ UNCHANGED <<audit_max, exporters, exported, given, written, guardVars, rollbackVars>>

\* self._entries = <the slice>, and the lock is released.
WriteStore(t) ==
    LET w == writer[t] IN
    /\ w.pc = "store"
    /\ entries' = w.slice
    /\ writer' = [writer EXCEPT ![t].pc = Forward, ![t].i = 1]
    /\ UNCHANGED <<audit_max, exporters, exported, given, written, rollbackVars, evaluators,
                   budgetVars, costVars, rateVars, snapshots, action_log, profiles, callVars>>

\* Where the loop over the exporters goes after export number i: an export
\* that raised is logged and the loop goes on.
AfterExportPropagates(i, raises) ==
    IF raises THEN "raised" ELSE IF i = Len(exporters) THEN "done" ELSE "export"

AfterExport(i, raises) == IF i = Len(exporters) THEN "done" ELSE "export"

\* The fields of the entry object as they stand: rolled_back is a field of
\* the object, which the log, the coordinator's action log and the
\* exporters it was handed to all refer to.
Fields(entry) ==
    [action_id |-> entry.action_id, rolled_back |-> entry.action_id \in rolled_back]

\* rollback_last and rollback_task after a rollback_action that returned
\* True: entry.rolled_back = True, on the entry recorded with the
\* coordinator, the object AuditLog.write was given.
FlagRolledBack ==
    /\ \E k \in 1..Len(written) :
           /\ written[k].action_id \notin rolled_back
           /\ rolled_back' = rolled_back \cup {written[k].action_id}
    /\ UNCHANGED <<handlers, rb, removed, restores, exportVars, guardVars>>

\* "Forward to exporters": exporter.export(entry), which may raise.
WriteExport(t) ==
    LET w == writer[t] IN
    /\ w.pc = "export"
    /\ \E raises \in BOOLEAN :
           /\ exported' = [exported EXCEPT ![exporters[w.i]] = Append(@, w.entry)]
           /\ given' = [given EXCEPT ![exporters[w.i]] = Append(@, Fields(w.entry))]
           /\ writer' = [writer EXCEPT ![t].pc = AfterExport(w.i, raises),
                                       ![t].i = w.i + 1,
                                       ![t].failures = IF raises THEN @ + 1 ELSE @]
    /\ UNCHANGED <<audit_max, exporters, written, guardVars, rollbackVars>>

\* The state after construction, but for the pipeline and the rate limit.
InitStores ==
    /\ agent_spend = [a \in Agents |-> 0]
    /\ task_spend = [k \in Tasks |-> 0]
    /\ task_agents = [k \in Tasks |-> {}]
    /\ ce_agent_spend = [a \in Agents |-> 0]
    /\ ce_task_spend = [k \in Tasks |-> 0]
    /\ windows = [k \in WindowKeys |-> <<>>]
    /\ agent_windows = [a \in Agents |-> <<>>]
    /\ now = 0
    /\ entries = <<>>
    /\ snapshots = {}
    /\ action_log = <<>>
    /\ profiles = NoProfiles
    /\ call = [t \in Threads |-> IdleCall]
    /\ next_id = 1
    /\ handed = <<>>
    /\ overlapped = FALSE
    /\ handlers = BuiltinHandlers
    /\ rolled_back = {}
    /\ rb = [t \in Threads |-> IdleRollback]
    /\ removed = {}
    /\ restores = <<>>   \* the function with the empty domain
    /\ exporters = <<>>
    /\ exported = [x \in ExporterNames |-> <<>>]
    /\ given = [x \in ExporterNames |-> <<>>]
    /\ writer = [t \in Threads |-> IdleWriter]
    /\ written = <<>>

\* ActionGuard.__init__ with the default rate limit "60/min".
InitGuard ==
    /\ InitStores
    /\ audit_max = max_entries
    /\ evaluators = SetupEvaluators({"ALLOW", "WARN", "BLOCK", "ESCALATE", "DEFER"})
    /\ default_limit = RateLimitFromString(60, "min")

\* ActionGuard.__init__ with no policies loaded: the policy engine allows.
InitGuardNoPolicies ==
    /\ InitStores
    /\ audit_max = max_entries
    /\ evaluators = SetupEvaluators({"ALLOW"})
    /\ default_limit = RateLimitFromString(60, "min")

\* EvaluationPipeline.__init__: no evaluators.
InitPipeline ==
    /\ InitStores
    /\ audit_max = max_entries
    /\ evaluators = <<>>
    /\ default_limit = RateLimitFromString(60, "min")

\* A pipeline holding RateLimiter(default_limit="2/sec") alone.
InitRate ==
    /\ InitStores
    /\ audit_max = max_entries
    /\ evaluators = <<Evaluator("rate_limiter", 40, TRUE, {})>>
    /\ default_limit = RateLimitFromString(rate_max_calls, "sec")

---------------------------------------------------------------------------
(* GlobalBudgetManager called on its own: record_cost, add_spend,          *)
(* register_action, recredit, reset                                        *)

\* The lock a method holds while it runs: record_cost, register_action,
\* recredit and reset take _sync_lock (a threading.RLock), add_spend takes
\* _lock (an asyncio.Lock).
LockOf(method) == IF method = "add_spend" THEN "_lock" ELSE "_sync_lock"

\* The locals of a record_cost / add_spend call that has not started.
IdleCharge ==
    [pc |-> "idle", method |-> "record_cost", agent_id |-> "a1", task_id |-> NoTask,
     cost |-> 0, read |-> 0]

\* Whether a call in flight holds the lock the method needs.
LockHeld(method) ==
    \E u \in Threads :
        /\ budget_call[u].pc \notin {"idle", "done"}
        /\ LockOf(budget_call[u].method) = LockOf(method)

\* What a step of the budget manager leaves alone.
ManagerOnly == UNCHANGED <<evaluators, costVars, rateVars, storeVars, callVars>>

\* record_cost(agent_id, task_id, cost) or add_spend(task_id, agent_id, cost)
\* is called: the lock is taken; add_spend always names a task.
ChargeBegin(t, methods, agents, costs, limit) ==
    /\ budget_call[t].pc \in {"idle", "done"}
    /\ Len(charges) < limit
    /\ \E method \in methods, agent_id \in agents, cost \in costs,
          task_id \in Tasks \cup {NoTask} :
           /\ method = "add_spend" => task_id # NoTask
           /\ ~LockHeld(method)
           /\ budget_call' = [budget_call EXCEPT ![t] =
                  [IdleCharge EXCEPT !.pc = "agent_read", !.method = method,
                                     !.agent_id = agent_id, !.task_id = task_id,
                                     !.cost = cost]]
           /\ charges' = Append(charges, [agent_id |-> agent_id, task_id |-> task_id,
                                          cost |-> cost])
    /\ UNCHANGED <<budgetVars, action_costs, bm_op>>
    /\ ManagerOnly

\* self._agent_spend[agent_id] += cost, the read.
ChargeAgentRead(t) ==
    LET c == budget_call[t] IN
    /\ c.pc = "agent_read"
    /\ budget_call' = [budget_call EXCEPT ![t].pc = "agent_write",
                                          ![t].read = agent_spend[c.agent_id]]
    /\ UNCHANGED <<budgetVars, action_costs, charges, bm_op>>
    /\ ManagerOnly

\* self._agent_spend[agent_id] += cost, the write; without a task the call
\* is over and the lock released.
ChargeAgentWrite(t) ==
    LET c == budget_call[t] IN
    /\ c.pc = "agent_write"
    /\ agent_spend' = [agent_spend EXCEPT ![c.agent_id] = c.read + c.cost]
    /\ budget_call' = [budget_call EXCEPT
                          ![t].pc = IF c.task_id = NoTask THEN "done" ELSE "task_read"]
    /\ UNCHANGED <<task_spend, task_agents, action_costs, charges, bm_op>>
    /\ ManagerOnly

\* self._task_spend[task_id] += cost, the read.
ChargeTaskRead(t) ==
    LET c == budget_call[t] IN
    /\ c.pc = "task_read"
    /\ budget_call' = [budget_call EXCEPT ![t].pc = "task_write",
                                          ![t].read = task_spend[c.task_id]]
    /\ UNCHANGED <<budgetVars, action_costs, charges, bm_op>>
    /\ ManagerOnly

\* self._task_spend[task_id] += cost, the write, and the agent joins the
\* task's agents; the lock is released.
ChargeTaskWrite(t) ==
    LET c == budget_call[t] IN
    /\ c.pc = "task_write"
    /\ task_spend' = [task_spend EXCEPT ![c.task_id] = c.read + c.cost]
    /\ task_agents' = RecordTaskAgent(task_agents, c.task_id, c.agent_id)
    /\ budget_call' = [budget_call EXCEPT ![t].pc = "done"]
    /\ UNCHANGED <<agent_spend, action_costs, charges, bm_op>>
    /\ ManagerOnly

\* The sum of the costs charged to an agent, and to a task.
RECURSIVE ChargedTo(_, _, _)
ChargedTo(cs, field, id) ==
    IF cs = <<>> THEN 0
    ELSE (IF Head(cs)[field] = id THEN Head(cs).cost ELSE 0) + ChargedTo(Tail(cs), field, id)

\* No method of the budget manager called on its own yet.
NoOp ==
    [op |-> "none", agent_id |-> "a1", task_id |-> NoTask, action_id |-> 0, cost |-> 0,
     prior_agent |-> 0, prior_task |-> 0, returned |-> 0, follows |-> FALSE]

InitManager ==
    /\ action_costs = <<>>   \* the function with the empty domain
    /\ budget_call = [t \in Threads |-> IdleCharge]
    /\ charges = <<>>
    /\ bm_op = NoOp

\* The ledger entry of a task; record_cost and the tests keep no entry for
\* a call without a task.
TaskSpendOf(t_spend, task_id) == IF task_id = NoTask THEN 0 ELSE t_spend[task_id]

\* What the facade does for an executed action with a cost
\* (_post_execution): record_cost(agent_id, task_id, cost). The action_id,
\* new with every action, is not handed on and no per-action record is kept.
RecordCost(agents, costs, limit) ==
    /\ Len(charges) < limit
    /\ \E agent_id \in agents, task_id \in Tasks \cup {NoTask}, cost \in costs :
           /\ agent_spend' = RecordAgentSpend(agent_spend, agent_id, cost)
           /\ task_spend' = RecordTaskSpend(task_spend, task_id, cost)
           /\ task_agents' = RecordTaskAgent(task_agents, task_id, agent_id)
           /\ charges' = Append(charges, [agent_id |-> agent_id, task_id |-> task_id,
                                          cost |-> cost])
           /\ bm_op' = [op |-> "record_cost", agent_id |-> agent_id, task_id |-> task_id,
                        action_id |-> Len(charges) + 1, cost |-> cost,
                        prior_agent |-> agent_spend[agent_id],
                        prior_task |-> TaskSpendOf(task_spend, task_id),
                        returned |-> 0, follows |-> FALSE]
    /\ UNCHANGED <<action_costs, budget_call>>
    /\ ManagerOnly

\* register_action(task_id, agent_id, action_id, cost): the per-action
\* record is stored. It is called for the action recorded last.
RegisterAction ==
    /\ bm_op.op = "record_cost"
    /\ action_costs' =
           [id \in DOMAIN action_costs \cup {bm_op.action_id} |->
               IF id = bm_op.action_id
               THEN [task_id |-> bm_op.task_id, agent_id |-> bm_op.agent_id,
                     cost |-> bm_op.cost]
               ELSE action_costs[id]]
    /\ bm_op' = [bm_op EXCEPT !.op = "register_action"]
    /\ UNCHANGED <<budgetVars, budget_call, charges>>
    /\ ManagerOnly

\* recredit(task_id, agent_id, action_id): without a record for the
\* action 0.0 is returned; otherwise the record is removed, its cost is
\* subtracted from both ledgers, not below zero, and returned.
Recredit(agents, ids) ==
    /\ \E agent_id \in agents, task_id \in Tasks \cup {NoTask}, action_id \in ids :
           LET known == action_id \in DOMAIN action_costs
               cost == IF known THEN action_costs[action_id].cost ELSE 0
           IN  /\ action_costs' = [id \in DOMAIN action_costs \ {action_id} |->
                                      action_costs[id]]
               /\ agent_spend' =
                      [agent_spend EXCEPT ![agent_id] = Max(0, @ - cost)]
               /\ task_spend' =
                      IF task_id = NoTask THEN task_spend
                      ELSE [task_spend EXCEPT ![task_id] = Max(0, @ - cost)]
               /\ bm_op' = [bm_op EXCEPT
                      !.op = "recredit", !.returned = cost,
                      !.follows = /\ bm_op.op \in {"record_cost", "register_action"}
                                  /\ bm_op.agent_id = agent_id
                                  /\ bm_op.task_id = task_id
                                  /\ bm_op.action_id = action_id]
    /\ UNCHANGED <<task_agents, budget_call, charges>>
    /\ ManagerOnly

\* reset: the four maps are cleared.
Reset ==
    /\ agent_spend' = [a \in Agents |-> 0]
    /\ task_spend' = [k \in Tasks |-> 0]
    /\ task_agents' = [k \in Tasks |-> {}]
    /\ action_costs' = <<>>
    /\ bm_op' = NoOp
    /\ UNCHANGED <<budget_call, charges>>
    /\ ManagerOnly

---------------------------------------------------------------------------
(* SnapshotManager and its SQLite store (rollback/snapshot_manager.py)     *)

\* Python values beyond Str, Dict and List that a snapshot's state holds: an
\* int, a tuple (a row as a DB-API cursor returns it), and a value json
\* cannot encode (a datetime, bytes, a Path), kept here by its str().
Num(n) == [kind |-> "int", n |-> n]
Tuple(l) == [kind |-> "tuple", l |-> l]
Other(v) == [kind |-> "other", v |-> v]

\* JSON text, by its structure.
JStr(v) == [json |-> "string", v |-> v]
JNum(n) == [json |-> "number", n |-> n]
JArr(l) == [json |-> "array", l |-> l]
JObj(d) == [json |-> "object", d |-> d]

\* json.dumps(value, default=str): a tuple is written as an array like a
\* list, and a value json cannot encode is written as the string str(value).
RECURSIVE dumps(_)
dumps(value) ==
    CASE value.kind = "str" -> JStr(value.v)
      [] value.kind = "int" -> JNum(value.n)
      [] value.kind = "list" -> JArr([i \in DOMAIN value.l |-> dumps(value.l[i])])
      [] value.kind = "tuple" -> JArr([i \in DOMAIN value.l |-> dumps(value.l[i])])
      [] value.kind = "dict" -> JObj([k \in DOMAIN value.d |-> dumps(value.d[k])])
      [] OTHER -> JStr(value.v)

\* json.loads: a string, a number, an array as a list, an object as a dict.
RECURSIVE loads(_)
loads(text) ==
    CASE text.json = "string" -> Str(text.v)
      [] text.json = "number" -> Num(text.n)
      [] text.json = "array" -> List([i \in DOMAIN text.l |-> loads(text.l[i])])
      [] OTHER -> Dict([k \in DOMAIN text.d |-> loads(text.d[k])])

\* datetime.now(UTC) at a tick of the clock, datetime.isoformat and
\* datetime.fromisoformat.
Datetime(tick) == [tick |-> tick, tzinfo |-> "UTC"]

isoformat(dt) == [iso |-> dt.tick, offset |-> IF dt.tzinfo = "UTC" THEN "+00:00" ELSE ""]

fromisoformat(text) ==
    [tick |-> text.iso, tzinfo |-> IF text.offset = "+00:00" THEN "UTC" ELSE "naive"]

Snapshot(action_id, action_type, captured_at, state, metadata) ==
    [action_id |-> action_id, action_type |-> action_type, captured_at |-> captured_at,
     state |-> state, metadata |-> metadata]

\* get returned None, or was not called.
NoSnapshot == [action_id |-> 0]

\* _persist_to_db: the row written for a snapshot.
Row(snapshot, agent_id) ==
    [action_id |-> snapshot.action_id, action_type |-> snapshot.action_type,
     agent_id |-> agent_id,
     snapshot_data |-> dumps(Dict([state |-> Dict(snapshot.state),
                                   metadata |-> Dict(snapshot.metadata)])),
     captured_at |-> isoformat(snapshot.captured_at)]

\* _load_from_db: None without a row, otherwise the snapshot built from it.
load_from_db(db, action_id) ==
    IF action_id \notin DOMAIN db THEN NoSnapshot
    ELSE LET row == db[action_id]
             data == loads(row.snapshot_data).d
         IN  Snapshot(row.action_id, row.action_type, fromisoformat(row.captured_at),
                      data.state.d, data.metadata.d)

\* SnapshotManager.__init__ on a new path: no snapshot cached, no row.
\* SnapshotManager(max_in_memory=1000), the constructor's default.
max_in_memory == 1000

\* Bound of the model: the cap of the small cache.
MaxInMemory == 2

\* No snapshot captured, in a manager whose cache holds cap snapshots.
InitManagerWithCap(cap) ==
    /\ sm_snapshots = <<>>   \* the function with the empty domain
    /\ sm_db = <<>>
    /\ sm_got = [action_id |-> 0, snapshot |-> NoSnapshot]
    /\ sm_next_id = 1
    /\ sm_max = cap
    /\ sm_captured = <<>>

InitSnapshotStore == InitManagerWithCap(max_in_memory)

InitSnapshotCache == InitManagerWithCap(MaxInMemory)

\* A function without the key.
Without(f, key) == [id \in DOMAIN f \ {key} |-> f[id]]

\* The first key of the OrderedDict: action_ids are handed out in capture
\* order and a key is inserted once, so it is the smallest.
FirstKey(cache) == CHOOSE id \in DOMAIN cache : \A other \in DOMAIN cache : id <= other

\* capture, under the lock: while len(_snapshots) > _max_in_memory,
\* popitem(last=False).
RECURSIVE Evict(_, _)
Evict(cache, cap) ==
    IF Cardinality(DOMAIN cache) > cap
    THEN Evict(Without(cache, FirstKey(cache)), cap)
    ELSE cache

\* What a step of the snapshot store leaves alone.
StoreOnly == UNCHANGED <<evalVars, managerVars, facadeVars>>

\* SnapshotManager.capture: the handler's snapshot is cached, the oldest
\* snapshots are evicted from a cache over its cap, and the snapshot is
\* persisted; an sqlite3.Error while persisting is logged and the row is
\* not written.
Capture(action_types, states, metadatas, limit) ==
    /\ sm_next_id <= limit
    /\ \E action_type \in action_types, state \in states, metadata \in metadatas,
          persisted \in BOOLEAN :
           LET snapshot == Snapshot(sm_next_id, action_type, Datetime(sm_next_id), state,
                                    metadata)
           IN  /\ sm_snapshots' = Evict((sm_next_id :> snapshot) @@ sm_snapshots, sm_max)
               /\ sm_captured' = (sm_next_id :> snapshot) @@ sm_captured
               /\ sm_db' = IF persisted THEN (sm_next_id :> Row(snapshot, "a1")) @@ sm_db
                           ELSE sm_db
    /\ sm_next_id' = sm_next_id + 1
    /\ UNCHANGED <<sm_got, sm_max>>
    /\ StoreOnly

\* A SnapshotManager is built on the same db_path and asked for a snapshot:
\* its cache is empty and get loads from the database.
ReopenGet ==
    /\ \E action_id \in DOMAIN sm_snapshots :
           sm_got' = [action_id |-> action_id, snapshot |-> load_from_db(sm_db, action_id)]
    /\ UNCHANGED <<sm_snapshots, sm_db, sm_next_id, sm_max, sm_captured>>
    /\ StoreOnly

\* SnapshotManager.get on the capturing manager: the cache, then the
\* database.
Get ==
    /\ \E action_id \in DOMAIN sm_captured :
           sm_got' = [action_id |-> action_id,
                      snapshot |-> IF action_id \in DOMAIN sm_snapshots
                                   THEN sm_snapshots[action_id]
                                   ELSE load_from_db(sm_db, action_id)]
    /\ UNCHANGED <<sm_snapshots, sm_db, sm_next_id, sm_max, sm_captured>>
    /\ StoreOnly

\* SnapshotManager.remove: the snapshot leaves the cache and the database.
Remove ==
    /\ \E action_id \in DOMAIN sm_captured :
           /\ sm_snapshots' = Without(sm_snapshots, action_id)
           /\ sm_db' = Without(sm_db, action_id)
           /\ sm_captured' = Without(sm_captured, action_id)
    /\ UNCHANGED <<sm_got, sm_next_id, sm_max>>
    /\ StoreOnly

---------------------------------------------------------------------------
(* The mutexes of the stores (each store's _sync_lock) and the database    *)
(* connections of the snapshot manager, as the guarded call, the rollback  *)
(* and the cleanup take them                                               *)

\* Bound of the model: the number of calls each thread makes.
MaxPaths == 2

NoThread == "nobody"

\* The order of the lock ordering rule.
StoreMutexes == <<"trust", "cascade", "budget", "audit">>

\* Every lock of the model: the stores' mutexes, the mutexes of the rate
\* windows and of the metrics, the mutex of the snapshot cache, and the
\* lock SQLite holds on the database file while a statement or a
\* transaction of one connection runs.
Mutexes == {"trust", "cascade", "budget", "audit", "rate", "metrics", "cache", "store"}

Acquire(lock) == [op |-> "acquire", lock |-> lock]

Release(lock) == [op |-> "release", lock |-> lock]

\* sqlite3.connect and conn.close.
Connect == [op |-> "connect", lock |-> "none"]

Close == [op |-> "close", lock |-> "none"]

\* A callback the guard does not own: the operation, a handler's restore,
\* the exporters.  It terminates.
Callback(what) == [op |-> "callback", lock |-> what]

\* with self._sync_lock: a body that calls no other store.
Critical(lock) == <<Acquire(lock), Release(lock)>>

\* _persist_to_db, _load_from_db and the DELETE of remove: a connection is
\* opened, one statement runs and is committed, the connection is closed.
Statement == <<Connect, Acquire("store"), Release("store"), Close>>

\* SnapshotManager.capture: the cache under its mutex, then the row.
CapturePath == Critical("cache") \o Statement

\* SnapshotManager.get: the cache under its mutex, then the row.
GetPath == Critical("cache") \o Statement

\* SnapshotManager.remove: the cache under its mutex, then the row.
RemovePath == Critical("cache") \o Statement

\* SnapshotManager.cleanup: the connection is opened, the rows are deleted
\* and the deletion committed, and the cache is cleaned under its mutex
\* inside the try block, before the finally clause closes the connection.
CleanupPath ==
    <<Connect, Acquire("store"), Release("store")>> \o Critical("cache") \o <<Close>>

\* ActionGuard._record_blocked: the audit entry is written and handed to
\* the exporters, the metrics are counted, the violation is recorded
\* (is_registered, then record_violation).
RecordBlockedPath ==
    Critical("audit") \o <<Callback("exporter")>> \o Critical("metrics")
        \o Critical("trust") \o Critical("trust")

\* ActionGuard._post_execution: the audit entry, the metrics, the cost in
\* the budget ledger, the action in the trust ledger.
PostExecutionPath ==
    Critical("audit") \o <<Callback("exporter")>> \o Critical("metrics")
        \o Critical("budget") \o Critical("trust") \o Critical("trust")

\* ActionGuard._run_pipeline, by the stage that blocked the call ("none"
\* when it was allowed): the trust ledger (is_registered, then get), the
\* cascade controller, the budget manager, the evaluators, the snapshot,
\* the operation, the records.
RunPipelinePath(blocked_at) ==
    Critical("trust") \o Critical("trust") \o Critical("cascade")
        \o (IF blocked_at = "cascade" THEN RecordBlockedPath
            ELSE Critical("budget")
                \o (IF blocked_at = "budget" THEN RecordBlockedPath
                    ELSE Critical("rate")
                        \o (IF blocked_at = "pipeline" THEN RecordBlockedPath
                            ELSE CapturePath \o <<Callback("operation")>>
                                     \o PostExecutionPath)))

\* ActionGuard.rollback over RollbackCoordinator.rollback_action: the
\* snapshot is fetched, the handler restores it, the snapshot is removed,
\* the rollback is counted.
RollbackActionPath ==
    GetPath \o <<Callback("handler")>> \o RemovePath \o Critical("metrics")

\* What a thread can be asked to run.
Paths ==
    {RunPipelinePath(b) : b \in {"none", "cascade", "budget", "pipeline"}}
        \cup {RollbackActionPath, CleanupPath}

LockThreads == {"t1", "t2"}

\* The thread that holds a lock.
Owner(lock) ==
    IF \E t \in LockThreads : \E i \in 1..Len(lk_held[t]) : lk_held[t][i] = lock
    THEN CHOOSE t \in LockThreads : \E i \in 1..Len(lk_held[t]) : lk_held[t][i] = lock
    ELSE NoThread

Running(t) == lk_path[t] # <<>>

\* The step a running thread is at.
Step(t) == lk_path[t][lk_pc[t]]

InitLocks ==
    /\ lk_held = [t \in LockThreads |-> <<>>]
    /\ lk_conn = [t \in LockThreads |-> FALSE]
    /\ lk_path = [t \in LockThreads |-> <<>>]
    /\ lk_pc = [t \in LockThreads |-> 0]
    /\ lk_runs = [t \in LockThreads |-> 0]

\* The thread moves past its step; past the last one the call has returned.
Proceed(t) ==
    IF lk_pc[t] = Len(lk_path[t])
    THEN /\ lk_path' = [lk_path EXCEPT ![t] = <<>>]
         /\ lk_pc' = [lk_pc EXCEPT ![t] = 0]
    ELSE /\ lk_pc' = [lk_pc EXCEPT ![t] = @ + 1]
         /\ UNCHANGED lk_path

\* A thread calls the guard or the snapshot manager.
StartPath(t) ==
    /\ ~Running(t)
    /\ lk_runs[t] < MaxPaths
    /\ \E path \in Paths : lk_path' = [lk_path EXCEPT ![t] = path]
    /\ lk_pc' = [lk_pc EXCEPT ![t] = 1]
    /\ lk_runs' = [lk_runs EXCEPT ![t] = @ + 1]
    /\ UNCHANGED <<lk_held, lk_conn>>

\* Entering a with block: the thread waits until nobody holds the lock.
AcquireStep(t) ==
    /\ Running(t)
    /\ Step(t).op = "acquire"
    /\ Owner(Step(t).lock) = NoThread
    /\ lk_held' = [lk_held EXCEPT ![t] = Append(@, Step(t).lock)]
    /\ Proceed(t)
    /\ UNCHANGED <<lk_conn, lk_runs>>

\* Leaving the with block.
ReleaseStep(t) ==
    /\ Running(t)
    /\ Step(t).op = "release"
    /\ lk_held' = [lk_held EXCEPT ![t] = SelectSeq(@, LAMBDA l : l # Step(t).lock)]
    /\ Proceed(t)
    /\ UNCHANGED <<lk_conn, lk_runs>>

\* _get_conn and conn.close: every call opens a connection of its own.
ConnectionStep(t) ==
    /\ Running(t)
    /\ Step(t).op \in {"connect", "close"}
    /\ lk_conn' = [lk_conn EXCEPT ![t] = (Step(t).op = "connect")]
    /\ Proceed(t)
    /\ UNCHANGED <<lk_held, lk_runs>>

\* The operation, the handler or the exporters return.
CallbackStep(t) ==
    /\ Running(t)
    /\ Step(t).op = "callback"
    /\ Proceed(t)
    /\ UNCHANGED <<lk_held, lk_conn, lk_runs>>

---------------------------------------------------------------------------
(* ActionGuard.set_task_context and the protect wrapper (core/guard.py,    *)
(* core/interceptor.py)                                                    *)

\* Bound of the model: how deep set_task_context regions nest.
MaxDepth == 3

\* Bound of the model: the number of protected calls of a run.
MaxContextCalls == 2

\* The tasks and the agents named by the regions.
ContextTasks == {"T", "U"}

ContextAgents == {"a1", "a2", "a3"}

\* ActionGuard.__init__: _default_agent_id = "default".
DefaultAgent == "default"

\* Outside every region.
NoRegion == [task_id |-> NoTask, agent_id |-> DefaultAgent]

\* The region a call is made in: the innermost one entered and not left.
RegionInForce(stack) ==
    IF stack = <<>> THEN NoRegion
    ELSE [task_id |-> stack[Len(stack)].task_id, agent_id |-> stack[Len(stack)].agent_id]

\* Interceptor.__init__ as the protect wrapper calls it: agent_id is the
\* guard's default agent, task_id is not passed and defaults to None.
Interceptor(action_type, agent_id) ==
    [action_type |-> action_type, agent_id |-> agent_id, task_id |-> NoTask]

\* Interceptor.create_intent: the intent carries the interceptor's
\* action_type, agent_id and task_id.
create_intent(interceptor, action_id) ==
    [NoIntent EXCEPT !.action_id = action_id,
                     !.action_type = interceptor.action_type,
                     !.agent_id = interceptor.agent_id,
                     !.task_id = interceptor.task_id]

InitContext ==
    /\ default_agent_id = DefaultAgent
    /\ context_stack = <<>>
    /\ ctx_intent = NoIntent
    /\ ctx_region = NoRegion
    /\ ctx_left = ""

InitFacade == InitContext /\ InitLocks

\* set_task_context, up to the yield: the default agent is saved in the
\* generator's local previous_agent and replaced by agent_id; task_id is
\* not used.
EnterContext ==
    /\ Len(context_stack) < MaxDepth
    /\ \E task_id \in ContextTasks, agent_id \in ContextAgents :
           /\ context_stack' =
                  Append(context_stack,
                         [task_id |-> task_id, agent_id |-> agent_id,
                          previous_agent |-> default_agent_id])
           /\ default_agent_id' = agent_id
    /\ UNCHANGED <<ctx_intent, ctx_region, ctx_left>>
    /\ UNCHANGED lockVars

\* set_task_context, the finally clause: it runs when the with block ends
\* and when an exception leaves it, and puts previous_agent back.
ExitContext ==
    /\ context_stack # <<>>
    /\ \E how \in {"returned", "raised"} : ctx_left' = how
    /\ default_agent_id' = context_stack[Len(context_stack)].previous_agent
    /\ context_stack' = SubSeq(context_stack, 1, Len(context_stack) - 1)
    /\ UNCHANGED <<ctx_intent, ctx_region>>
    /\ UNCHANGED lockVars

\* The wrapper of protect, up to the call of _run_pipeline: the intent is
\* built by an Interceptor made with the guard's default agent.
ProtectedCall ==
    /\ ctx_intent.action_id < MaxContextCalls
    /\ \E action_type \in ActionTypes :
           ctx_intent' = create_intent(Interceptor(action_type, default_agent_id),
                                       ctx_intent.action_id + 1)
    /\ ctx_region' = RegionInForce(context_stack)
    /\ UNCHANGED <<default_agent_id, context_stack, ctx_left>>
    /\ UNCHANGED lockVars

---------------------------------------------------------------------------
(* PolicyEngine.evaluate and HumanGate.evaluate (evaluators/)              *)

\* Bound of the model: the number of policies loaded into the engine.
MaxPolicies == 2

\* What evaluating a compiled condition on the context does: it is true, it
\* is false, or it raises PolicyConditionError (_evaluator turns every other
\* exception into one).
Conditions == {"true", "false", "error"}

\* A policy as evaluate sees it: whether matches_action_type holds for the
\* intent, whether a compiled condition is there, what the condition does
\* and the policy's verdict.
Policies ==
    [matches : BOOLEAN, compiled : BOOLEAN, condition : Conditions,
     verdict : {"BLOCK", "WARN"}]

PolicyLists == UNION {[1..n -> Policies] : n \in 0..MaxPolicies}

\* The names of the loaded policies, by load position.
PolicyNames == <<"p1", "p2", "p3", "p4">>

\* The result of a triggered policy: its verdict, with its name in the
\* metadata.
Triggered(policy, name) ==
    [verdict |-> policy.verdict, reason |-> "Policy triggered",
     evaluator_name |-> "policy_engine", policy_name |-> name]

\* PolicyEngine.evaluate, the for loop from policy i on, the conditions
\* evaluated so far being those of the policies in evaluated: a policy that
\* does not match the action type or has no compiled condition is passed
\* over; the first one whose condition is true gives the result; a
\* condition that is false or raises PolicyConditionError lets the loop go
\* on; with none triggered, ALLOW.
RECURSIVE PolicyLoopLast(_, _, _)
PolicyLoopLast(policies, i, evaluated) ==
    IF i > Len(policies)
    THEN [result |-> EvaluatorResult("ALLOW", "No policies triggered", "policy_engine"),
          evaluated |-> evaluated]
    ELSE LET policy == policies[i]
             rest == PolicyLoopLast(policies, i + 1, Append(evaluated, i))
         IN
         IF ~policy.matches \/ ~policy.compiled
         THEN PolicyLoopLast(policies, i + 1, evaluated)
         ELSE IF policy.condition = "true" /\ rest.result.verdict = "ALLOW"
         THEN [result |-> Triggered(policy, PolicyNames[i]),
               evaluated |-> Append(evaluated, i)]
         ELSE rest

RECURSIVE PolicyLoop(_, _, _)
PolicyLoop(policies, i, evaluated) ==
    IF i > Len(policies)
    THEN [result |-> EvaluatorResult("ALLOW", "No policies triggered", "policy_engine"),
          evaluated |-> evaluated]
    ELSE LET policy == policies[i] IN
         IF ~policy.matches \/ ~policy.compiled
         THEN PolicyLoop(policies, i + 1, evaluated)
         ELSE IF policy.condition = "true"
         THEN [result |-> Triggered(policy, PolicyNames[i]),
               evaluated |-> Append(evaluated, i)]
         ELSE PolicyLoop(policies, i + 1, Append(evaluated, i))

PolicyEngineEvaluate(policies) == PolicyLoop(policies, 1, <<>>)

\* What the approval callback does when called.
Callbacks == {"approves", "denies", "raises"}

\* HumanGate.evaluate: ALLOW when no approval is required; otherwise the
\* callback is called: ALLOW when it approves, BLOCK when it denies, and
\* BLOCK ("Human approval callback failed") when it raises.
HumanGateEvaluate(requires, callback) ==
    IF ~requires
    THEN EvaluatorResult("ALLOW", "Human approval not required", "human_gate")
    ELSE IF callback = "raises"
    THEN EvaluatorResult("BLOCK", "Human approval callback failed", "human_gate")
    ELSE IF callback = "approves"
    THEN EvaluatorResult("ALLOW", "Human approved this action", "human_gate")
    ELSE EvaluatorResult("BLOCK", "Human denied this action", "human_gate")

\* No evaluator called on its own.
InitEvaluators ==
    /\ pe_policies = <<>>
    /\ hg_requires = FALSE
    /\ hg_callback = "approves"
    /\ ev_op = "none"
    /\ ev_result = None
    /\ ev_evaluated = <<>>

\* The inputs of a run: the policies loaded, whether the intent requires
\* approval and what the callback does.
InitEvaluatorInputs ==
    /\ pe_policies \in PolicyLists
    /\ hg_requires \in BOOLEAN
    /\ hg_callback \in Callbacks
    /\ ev_op = "none"
    /\ ev_result = None
    /\ ev_evaluated = <<>>

\* policy_engine.evaluate(intent)
PolicyEngineCall ==
    /\ ev_op' = "policy_engine"
    /\ ev_result' = PolicyEngineEvaluate(pe_policies).result
    /\ ev_evaluated' = PolicyEngineEvaluate(pe_policies).evaluated
    /\ UNCHANGED <<pe_policies, hg_requires, hg_callback>>

\* human_gate.evaluate(intent)
HumanGateCall ==
    /\ ev_op' = "human_gate"
    /\ ev_result' = HumanGateEvaluate(hg_requires, hg_callback)
    /\ ev_evaluated' = <<>>
    /\ UNCHANGED <<pe_policies, hg_requires, hg_callback>>

\* The components called on their own, not called.
InitUnits == InitEvaluators /\ InitManager /\ InitSnapshotStore /\ InitFacade

---------------------------------------------------------------------------
(* Specifications                                                          *)

Init == InitUnits /\ InitCascade /\ InitVerdict /\ InitGuard

NextCascade ==
    \/ CheckCall
    \/ RecordDelegationStart
    \/ RecordDelegationEnd
    \/ ResetCascade

\* The cascade controller driven through its public methods.
SpecCascade == Init /\ [][NextCascade /\ UNCHANGED <<unitVars, verdictVars, guardVars, rollbackVars, exportVars>>]_vars

\* _worst_verdict applied to every short result list, in every order.
InitWorstVerdict == InitUnits /\ InitCascade /\ InitVerdictInputs /\ InitGuard

SpecVerdict == InitWorstVerdict /\ [][WorstVerdictCall]_vars

\* The intents of the concurrent runs: agent a1 on task T, with and without
\* a rollback handler for the action type, free or costly, called directly
\* or through a chain that names a1 itself.
GuardIntents ==
    {[NoIntent EXCEPT !.action_type = ty, !.task_id = "T",
                      !.estimated_cost = c, !.instruction_chain = ch] :
        ty \in ActionTypes, c \in {0, 4, 7}, ch \in {<<>>, <<"a1">>}}

Next ==
    \E t \in Threads :
        \/ Begin(t, GuardIntents, BOOLEAN, MaxCalls)
        \/ CascadeStage(t)
        \/ BudgetStage(t)
        \/ EvaluatorStage(t)
        \/ RateToolStage(t)
        \/ RateAgentStage(t)
        \/ RateRecordStage(t)
        \/ VerdictStage(t)
        \/ SnapshotStage(t)
        \/ ExecuteStage(t, BOOLEAN)
        \/ PostStage(t)

\* Guarded calls from two threads through ActionGuard._run_pipeline.
Spec == Init /\ [][Next /\ UNCHANGED <<unitVars, cascadeVars, verdictVars, rollbackVars, exportVars>>]_vars

\* Bound of the model: the number of guarded calls of a sequential run.
MaxSeqCalls == 5

\* The intents of the sequential runs: every agent spending 0.20 on the
\* task, two agents spending 0.30 on it, one agent spending 0.30 outside it.
SeqIntents ==
    {[NoIntent EXCEPT !.agent_id = a, !.task_id = "T", !.estimated_cost = 2] : a \in Agents}
        \cup {[NoIntent EXCEPT !.agent_id = a, !.task_id = "T", !.estimated_cost = 3] :
                  a \in {"a1", "a2"}}
        \cup {[NoIntent EXCEPT !.estimated_cost = 3]}

NextSeq ==
    \/ Begin("t1", SeqIntents, {FALSE}, MaxSeqCalls)
    \/ CascadeStage("t1")
    \/ BudgetStage("t1")
    \/ EvaluatorStage("t1")
    \/ RateToolStage("t1")
    \/ RateAgentStage("t1")
    \/ RateRecordStage("t1")
    \/ VerdictStage("t1")
    \/ ExecuteStage("t1", {FALSE})
    \/ PostStage("t1")

\* Guarded calls one at a time, rollback off, operations that succeed, no
\* policies loaded.
InitSeq == InitUnits /\ InitCascade /\ InitVerdict /\ InitGuardNoPolicies

SpecSeq == InitSeq /\ [][NextSeq /\ UNCHANGED <<unitVars, cascadeVars, verdictVars, rollbackVars, exportVars>>]_vars

NextPipeline ==
    \/ PipelineAdd
    \/ PipelineRemove
    \/ EvaluateCall("t1", {NoIntent}, MaxCalls)
    \/ EvaluatorStage("t1")

\* A pipeline of spy evaluators built with add and remove and evaluated.
InitSpies == InitUnits /\ InitCascade /\ InitVerdict /\ InitPipeline

SpecPipeline == InitSpies /\ [][NextPipeline /\ UNCHANGED <<unitVars, cascadeVars, verdictVars, rollbackVars, exportVars>>]_vars

\* Bound of the model: the number of evaluate calls on the rate limiter.
MaxRateCalls == 4

RateIntents == {[NoIntent EXCEPT !.action_type = ty] : ty \in ActionTypes}

NextRate ==
    \/ \E t \in Threads :
           \/ EvaluateCall(t, RateIntents, MaxRateCalls)
           \/ RateToolStage(t)
           \/ RateAgentStage(t)
           \/ RateRecordStage(t)
    \/ Tick

\* RateLimiter.evaluate called from two threads while the clock advances.
InitLimiter == InitUnits /\ InitCascade /\ InitVerdict /\ InitRate

SpecRate == InitLimiter /\ [][NextRate /\ UNCHANGED <<unitVars, cascadeVars, verdictVars, rollbackVars, exportVars>>]_vars

\* Bound of the model: the number of guarded calls of a run with rollbacks.
MaxRollbackCalls == 2

\* Bound of the model: the largest n handed to rollback_last.
MaxLast == 2

\* The intents of the runs with rollbacks: agent a1 on task T, writing a
\* file or doing something no rollback handler covers, and agent a2 writing
\* a file outside the task.
RollbackIntents ==
    {[NoIntent EXCEPT !.action_type = "file.write", !.task_id = "T"],
     [NoIntent EXCEPT !.task_id = "T"],
     [NoIntent EXCEPT !.agent_id = "a2", !.action_type = "file.write"]}

NextRollback ==
    \/ /\ \A t \in Threads : rb[t].pc = "idle"
       /\ \/ Begin("t1", RollbackIntents, BOOLEAN, MaxRollbackCalls)
          \/ CascadeStage("t1")
          \/ BudgetStage("t1")
          \/ EvaluatorStage("t1")
          \/ RateToolStage("t1")
          \/ RateAgentStage("t1")
          \/ RateRecordStage("t1")
          \/ VerdictStage("t1")
          \/ SnapshotStage("t1")
          \/ ExecuteStage("t1", {FALSE})
          \/ PostStage("t1")
       /\ UNCHANGED rollbackVars
    \/ \E t \in Threads :
           /\ NoneInFlight
           /\ \/ RollbackCall(t, 1..MaxRollbackCalls)
              \/ t = "t1" /\ RollbackLastCall(t, 1..MaxLast, {NoAgent, "a1"})
              \/ t = "t1" /\ RollbackTaskCall(t, Tasks)
              \/ RollbackNext(t)
              \/ RollbackGet(t)
              \/ RollbackRestore(t)
              \/ RollbackRemove(t)
              \/ RollbackReturn(t)
    \/ SnapshotClear
    \/ SnapshotCleanup
    \/ RegistryClear

\* ActionGuard.__init__ with a policy that blocks some intents.
InitGuardBlockingPolicy ==
    /\ InitStores
    /\ audit_max = max_entries
    /\ evaluators = SetupEvaluators({"ALLOW", "BLOCK"})
    /\ default_limit = RateLimitFromString(60, "min")

InitRollback == InitUnits /\ InitCascade /\ InitVerdict /\ InitGuardBlockingPolicy

\* Guarded calls one at a time and, between them, rollback called from two
\* threads while one of them also calls rollback_last and rollback_task.
SpecRollback ==
    InitRollback /\ [][NextRollback /\ UNCHANGED <<unitVars, cascadeVars, verdictVars, exportVars>>]_vars

\* Bound of the model: the number of entries written to the audit log.
MaxWrites == 3

\* Bound of the model: the number of exporters registered.
MaxExporters == 2

\* Bound of the model: the largest max_entries the audit log is built with.
MaxLogEntries == 2

\* The parameters of the intents whose entries are written: no secret, a
\* secret at the top, one under a key in another case, one in a nested dict,
\* one in a dict inside a list.
SomeParameters ==
    {[path |-> Str("/tmp/x")],
     [password |-> Str("hunter2")],
     [Token |-> Str("hunter2")],
     [config |-> Dict([api_key |-> Str("hunter2")])],
     [items |-> List(<<Dict([secret |-> Str("hunter2")])>>)]}

\* Worker threads call write; the thread of the event loop calls
\* append_async as well.
WriteMethods(t) == IF t = "t2" THEN {"write", "append_async"} ELSE {"write"}

NextAudit ==
    \/ AddExporter(MaxExporters)
    \/ \E t \in Threads :
           \/ WriteAppend(t, WriteMethods(t), {"allowed"}, {[path |-> Str("/tmp/x")]},
                          MaxWrites)
           \/ WriteEvict(t)
           \/ WriteStore(t)
           \/ WriteExport(t)

\* AuditLog(max_entries) with a small bound, no exporter registered yet.
InitAuditLog ==
    /\ InitStores
    /\ audit_max \in 1..MaxLogEntries
    /\ evaluators = <<>>
    /\ default_limit = RateLimitFromString(60, "min")

InitAudit == InitUnits /\ InitCascade /\ InitVerdict /\ InitAuditLog

\* Audit entries written from two threads to a small log with exporters.
SpecAudit == InitAudit /\ [][NextAudit /\ UNCHANGED <<unitVars, cascadeVars, verdictVars>>]_vars

\* Bound of the model: the number of entries written with parameters of
\* every kind.
MaxSanitized == 2

NextSanitize ==
    \/ AddExporter(1)
    \/ WriteAppend("t1", {"write"}, {"allowed", "errored", "refused"}, SomeParameters,
                   MaxSanitized)
    \/ WriteEvict("t1")
    \/ WriteStore("t1")
    \/ WriteExport("t1")

\* The entries of allowed, errored and refused calls, with parameters of
\* every kind, written by one thread to a log with an exporter.
SpecSanitize ==
    InitAudit /\ [][NextSanitize /\ UNCHANGED <<unitVars, cascadeVars, verdictVars>>]_vars

NextEvaluators == PolicyEngineCall \/ HumanGateCall

InitEvaluatorRun ==
    InitEvaluatorInputs /\ InitManager /\ InitSnapshotStore /\ InitFacade /\ InitCascade /\ InitVerdict /\ InitGuard

\* The policy engine and the human gate called on every small input.
SpecEvaluators ==
    InitEvaluatorRun
        /\ [][NextEvaluators /\ UNCHANGED <<managerVars, persistVars, facadeVars, cascadeVars,
                                            verdictVars, guardVars, rollbackVars,
                                            exportVars>>]_vars

\* ActionGuard.register_agent: the agent is registered in the trust ledger.
\* Bound of the runs: an agent is registered once.
RegisterAgent(agents, trust_levels) ==
    /\ \E agent_id \in agents, trust_level \in trust_levels :
           /\ ~is_registered(profiles, agent_id)
           /\ profiles' = register(profiles, agent_id, trust_level)
    /\ UNCHANGED <<evaluators, budgetVars, costVars, rateVars, entries, snapshots,
                   action_log, callVars>>

\* The intents of the runs with a trust ledger: free calls of a1 and of a2.
TrustIntents == {[NoIntent EXCEPT !.agent_id = a] : a \in {"a1", "a2"}}

NextTrustGuard ==
    \/ RegisterAgent({"a1"}, {"UNKNOWN", "SUB_AGENT"})
    \/ \E t \in Threads :
           \/ Begin(t, TrustIntents, {FALSE}, MaxCalls)
           \/ CascadeStage(t)
           \/ BudgetStage(t)
           \/ EvaluatorStage(t)
           \/ RateToolStage(t)
           \/ RateAgentStage(t)
           \/ RateRecordStage(t)
           \/ VerdictStage(t)
           \/ ExecuteStage(t, BOOLEAN)
           \/ PostStage(t)

\* Guarded calls of two agents from two threads, under a policy that may
\* block, while a1 is registered in the trust ledger at some point and a2
\* never is.
SpecTrustGuard ==
    InitRollback
        /\ [][NextTrustGuard /\ UNCHANGED <<unitVars, cascadeVars, verdictVars,
                                            rollbackVars, exportVars>>]_vars

\* Bound of the model: the actions and the violations counted for an agent.
MaxCount == 2

\* The deltas handed to update_trust_score, in steps of 0.05: small and
\* large, down and up.
Deltas == {-30, -3, 1, 3, 30}

LedgerAgents == {"a1", "a2"}

\* What a ledger method leaves alone.
LedgerOnly ==
    UNCHANGED <<evaluators, budgetVars, costVars, rateVars, entries, snapshots,
                action_log, callVars>>

\* ledger.register(agent_id, trust_level)
Register ==
    /\ \E agent_id \in LedgerAgents, trust_level \in TrustLevels :
           profiles' = register(profiles, agent_id, trust_level)
    /\ LedgerOnly

\* ledger.update_trust_score(agent_id, delta)
UpdateTrustScore ==
    /\ \E agent_id \in LedgerAgents, delta \in Deltas :
           profiles' = update_trust_score(profiles, agent_id, delta)
    /\ LedgerOnly

\* ledger.record_violation(agent_id)
RecordViolation ==
    /\ \E agent_id \in LedgerAgents :
           /\ get(profiles, agent_id).violation_count < MaxCount
           /\ profiles' = record_violation(profiles, agent_id)
    /\ LedgerOnly

\* ledger.record_action(agent_id, success)
RecordAction ==
    /\ \E agent_id \in LedgerAgents, success \in BOOLEAN :
           /\ get(profiles, agent_id).action_count < MaxCount
           /\ profiles' = record_action(profiles, agent_id, success)
    /\ LedgerOnly

NextLedger == Register \/ UpdateTrustScore \/ RecordViolation \/ RecordAction

\* The methods of a trust ledger called in any order on two agents.
SpecLedger ==
    Init /\ [][NextLedger /\ UNCHANGED <<unitVars, cascadeVars, verdictVars,
                                         rollbackVars, exportVars>>]_vars

\* Bound of the model: the number of record_cost / add_spend calls of a run.
MaxCharges == 3

\* The costs charged, 0.10 and 0.30.
ChargeCosts == {1, 3}

\* One thread calls record_cost; the other runs the event loop and calls
\* add_spend, or record_cost as well.
ChargeMethods(t) == IF t = "t2" THEN {"record_cost", "add_spend"} ELSE {"record_cost"}

NextCharges ==
    \E t \in Threads :
        \/ ChargeBegin(t, ChargeMethods(t), {"a1", "a2"}, ChargeCosts, MaxCharges)
        \/ ChargeAgentRead(t)
        \/ ChargeAgentWrite(t)
        \/ ChargeTaskRead(t)
        \/ ChargeTaskWrite(t)

\* Costs recorded in the budget manager from a thread and from the event
\* loop, with no recredit and no reset.
SpecCharges ==
    Init /\ [][NextCharges /\ UNCHANGED <<evalVars, persistVars, facadeVars, cascadeVars,
                                          verdictVars, rollbackVars, exportVars>>]_vars

\* Bound of the model: the number of costs recorded before recrediting.
MaxRecorded == 3

\* The action_ids of the recorded actions.
RecordedIds == 1..MaxRecorded

NextRecredit ==
    \/ RecordCost({"a1", "a2"}, ChargeCosts, MaxRecorded)
    \/ RegisterAction
    \/ Recredit({"a1", "a2"}, RecordedIds)
    \/ Reset

\* The budget manager called by one caller: costs recorded as the facade
\* records them, actions registered, recredited, and the ledgers reset.
SpecRecredit ==
    Init /\ [][NextRecredit /\ UNCHANGED <<evalVars, persistVars, facadeVars, cascadeVars,
                                           verdictVars, rollbackVars, exportVars>>]_vars

\* Bound of the model: the number of snapshots captured in a run.
MaxSnapshots == 2

\* The states the handlers capture: the file handler's paths, the database
\* handler's rows as dicts and as tuples, and (without a registry) the
\* intent's parameters with a value json cannot encode.
SnapshotStates ==
    {[original_path |-> Str("/tmp/x"), snapshot_path |-> Str("/snap/1")],
     [table |-> Str("users"), original_rows |-> List(<<Dict([id |-> Num(1)])>>)],
     [table |-> Str("users"), original_rows |-> List(<<Tuple(<<Num(1), Str("bob")>>)>>)],
     [path |-> Other("/tmp/x")]}

SnapshotMetadatas == {<<>>, [agent_id |-> Str("a1")]}

NextSnapshots ==
    \/ Capture(ActionTypes, SnapshotStates, SnapshotMetadatas, MaxSnapshots)
    \/ Remove
    \/ ReopenGet

\* Snapshots captured and removed by one manager and read back by a
\* manager built on the same path.
SpecSnapshots ==
    Init /\ [][NextSnapshots /\ UNCHANGED <<cascadeVars, verdictVars, guardVars,
                                            rollbackVars, exportVars>>]_vars

NextContext == EnterContext \/ ExitContext \/ ProtectedCall

\* Protected calls made inside and outside nested set_task_context regions.
SpecContext ==
    Init /\ [][NextContext /\ UNCHANGED <<evalVars, managerVars, persistVars, cascadeVars,
                                          verdictVars, guardVars, rollbackVars,
                                          exportVars>>]_vars

\* The intents of the runs that roll back costly actions: file writes of
\* a1 on the task for 0.30, and of a2 outside every task for 0.40.
CostlyIntents ==
    {[NoIntent EXCEPT !.action_type = "file.write", !.task_id = "T", !.estimated_cost = 3],
     [NoIntent EXCEPT !.agent_id = "a2", !.action_type = "file.write",
                      !.estimated_cost = 4]}

NextRecreditRollback ==
    \/ /\ rb["t1"].pc = "idle"
       /\ \/ Begin("t1", CostlyIntents, {TRUE}, MaxRollbackCalls)
          \/ CascadeStage("t1")
          \/ BudgetStage("t1")
          \/ EvaluatorStage("t1")
          \/ RateToolStage("t1")
          \/ RateAgentStage("t1")
          \/ RateRecordStage("t1")
          \/ VerdictStage("t1")
          \/ SnapshotStage("t1")
          \/ ExecuteStage("t1", {FALSE})
          \/ PostStage("t1")
       /\ UNCHANGED rollbackVars
    \/ /\ NoneInFlight
       /\ \/ RollbackCall("t1", 1..MaxRollbackCalls)
          \/ RollbackLastCall("t1", 1..MaxLast, {NoAgent})
          \/ RollbackTaskCall("t1", Tasks)
          \/ RollbackNext("t1")
          \/ RollbackGet("t1")
          \/ RollbackRestore("t1")
          \/ RollbackRemove("t1")
          \/ RollbackReturn("t1")

\* Costly guarded calls one at a time and, between them, rollback,
\* rollback_last and rollback_task called by the same caller.
SpecRecreditRollback ==
    InitRollback /\ [][NextRecreditRollback /\ UNCHANGED <<unitVars, cascadeVars, verdictVars, exportVars>>]_vars

\* Bound of the model: the number of snapshots captured with a small cache.
MaxCaptures == 4

NextSnapshotCache ==
    \/ Capture(ActionTypes, {[path |-> Str("/tmp/x")]}, {<<>>}, MaxCaptures)
    \/ Get
    \/ Remove

InitSnapshotCacheRun ==
    InitEvaluators /\ InitManager /\ InitSnapshotCache /\ InitFacade /\ InitCascade /\ InitVerdict /\ InitGuard

\* Snapshots captured, read and removed through one manager whose cache
\* holds two of them.
SpecSnapshotCache ==
    InitSnapshotCacheRun
        /\ [][NextSnapshotCache /\ UNCHANGED <<cascadeVars, verdictVars, guardVars,
                                               rollbackVars, exportVars>>]_vars

NextExport ==
    \/ AddExporter(MaxExporters)
    \/ \E t \in Threads :
           \/ WriteAppend(t, {"write"}, {"allowed"}, {[path |-> Str("/tmp/x")]}, MaxWrites)
           \/ WriteEvict(t)
           \/ WriteStore(t)
           \/ WriteExport(t)
    \/ FlagRolledBack

\* Audit entries written from two threads to a log with exporters, and
\* flagged rolled back afterwards.
SpecExport == InitAudit /\ [][NextExport /\ UNCHANGED <<unitVars, cascadeVars, verdictVars>>]_vars

NextLocks ==
    \E t \in LockThreads :
        \/ StartPath(t)
        \/ AcquireStep(t)
        \/ ReleaseStep(t)
        \/ ConnectionStep(t)
        \/ CallbackStep(t)

\* Two threads that make guarded calls, rollbacks and cleanups side by
\* side.
SpecLocks ==
    Init /\ [][NextLocks /\ UNCHANGED <<contextVars, evalVars, managerVars, persistVars,
                                        cascadeVars, verdictVars, guardVars, rollbackVars,
                                        exportVars>>]_vars

---------------------------------------------------------------------------
(* Claims                                                                  *)

\* C7: CascadeController.check returns BLOCK for every intent whose chain is
\* longer than max_delegation_depth, whose agent_id is in the chain, or whose
\* chain holds an agent_id twice, whatever the delegation counters hold; when
\* the depth limit is not exceeded the reason names a cycle.
C7_CascadeBlocksDepthAndCycles ==
    LET chain == cc_intent.instruction_chain
        tooDeep == Len(chain) > max_depth
        selfIn == \E i \in 1..Len(chain) : chain[i] = cc_intent.agent_id
        twice == \E i, j \in 1..Len(chain) : i < j /\ chain[i] = chain[j]
    IN  (cc_op # <<"init">> /\ (tooDeep \/ selfIn \/ twice)) =>
            /\ cc_result.verdict = "BLOCK"
            /\ (~tooDeep => cc_result.reason = ReasonCycle)

\* A check of a chain with a repeated agent (the caller not in it, the depth
\* within the limit) was blocked as a cycle while a counter was non-zero.
C7_Witness ==
    LET chain == cc_intent.instruction_chain IN
    /\ cc_op = <<"check">>
    /\ Len(chain) = max_depth
    /\ chain[1] = chain[2]
    /\ cc_intent.agent_id # chain[1]
    /\ cc_result.verdict = "BLOCK"
    /\ cc_result.reason = ReasonCycle
    /\ active_delegations[chain[1]] > 0

\* C9: record_delegation_start(o) raises o's count by one, record_delegation_end(o)
\* lowers it by one but never below zero, reset zeroes every count; check never
\* changes a count, and it blocks an intent with a non-empty chain that passes
\* the depth and cycle checks exactly when the count of chain[0].agent_id is
\* >= max_concurrent_delegations.
C9_DelegationCounters ==
    [][ /\ \A o \in Agents :
            /\ cc_op' = <<"start", o>> =>
                   /\ active_delegations'[o] = active_delegations[o] + 1
                   /\ \A p \in Agents \ {o} :
                          active_delegations'[p] = active_delegations[p]
            /\ cc_op' = <<"end", o>> =>
                   /\ active_delegations'[o] =
                          IF active_delegations[o] = 0 THEN 0
                          ELSE active_delegations[o] - 1
                   /\ \A p \in Agents \ {o} :
                          active_delegations'[p] = active_delegations[p]
            /\ active_delegations'[o] >= 0
        /\ cc_op' = <<"reset">> => \A o \in Agents : active_delegations'[o] = 0
        /\ cc_op' = <<"check">> =>
               LET chain == cc_intent'.instruction_chain
                   passes == /\ chain # <<>>
                             /\ Len(chain) <= max_depth
                             /\ \A i \in 1..Len(chain) : chain[i] # cc_intent'.agent_id
                             /\ \A i, j \in 1..Len(chain) : i < j => chain[i] # chain[j]
               IN  /\ active_delegations' = active_delegations
                   /\ passes => (cc_result'.verdict = "BLOCK"
                                   <=> active_delegations[chain[1]] >= max_concurrent)
      ]_vars

\* A check was blocked because the orchestrator's count stood exactly at the limit.
C9_Witness ==
    /\ cc_op = <<"check">>
    /\ cc_result.verdict = "BLOCK"
    /\ cc_result.reason = ReasonConcurrent
    /\ active_delegations[cc_intent.instruction_chain[1]] = max_concurrent

\* C4: the final verdict over the collected results is the most severe one
\* under BLOCK < ESCALATE < DEFER < WARN < ALLOW, whatever the order the
\* results were collected in; among equally severe results the first one
\* collected is returned.
SeverityOrder == <<"BLOCK", "ESCALATE", "DEFER", "WARN", "ALLOW">>

Severity(v) == CHOOSE k \in 1..Len(SeverityOrder) : SeverityOrder[k] = v

C4_WorstVerdictMostSevere ==
    (wv_final # None /\ wv_results # <<>>) =>
        LET n == Len(wv_results)
            worst == CHOOSE k \in 1..n :
                        \A j \in 1..n :
                            Severity(wv_results[k].verdict) <= Severity(wv_results[j].verdict)
            first == CHOOSE k \in 1..n :
                        /\ wv_results[k].verdict = wv_results[worst].verdict
                        /\ \A j \in 1..(k - 1) :
                               wv_results[j].verdict # wv_results[worst].verdict
        IN  /\ wv_final.verdict = wv_results[worst].verdict
            /\ wv_final_perm.verdict = wv_final.verdict
            /\ wv_final = wv_results[first]

\* Two equally severe results sit behind a milder one, and the orders differ.
C4_Witness ==
    /\ Len(wv_results) = 3
    /\ wv_results[1].verdict = "WARN"
    /\ wv_results[2].verdict = "ESCALATE"
    /\ wv_results[3].verdict = "ESCALATE"
    /\ wv_perm[1] = wv_results[3]
    /\ wv_final = wv_results[2]
    /\ wv_final_perm = wv_results[3]

\* C1: the operation is invoked at most once per guarded call, and only for a
\* call the cascade check and the budget check did not refuse and whose final
\* verdict is ALLOW or WARN; a call whose final verdict is BLOCK, ESCALATE or
\* DEFER never invokes the operation and ends with ExecutionBlockedError.
C1_OperationOnlyWhenPermitted ==
    \A t \in Threads :
        LET c == call[t]
            chain == c.intent.instruction_chain
        IN  /\ c.func_calls <= 1
            /\ c.func_calls = 1 =>
                   /\ c.intent.agent_id \notin Range(chain)
                   /\ Len(chain) <= max_depth
                   /\ c.budget_result.verdict # "BLOCK"
                   /\ c.refused_by = None
                   /\ c.final.verdict \in {"ALLOW", "WARN"}
            /\ c.final.verdict \in {"BLOCK", "ESCALATE", "DEFER"} =>
                   c.func_calls = 0 /\ c.pc = "refused"

\* One call returned after a WARN verdict, the other was refused on DEFER.
C1_Witness ==
    /\ call["t1"].pc = "returned" /\ call["t1"].func_calls = 1
    /\ call["t1"].final.verdict = "WARN"
    /\ call["t2"].pc = "refused" /\ call["t2"].final.verdict = "DEFER"

\* The number of audit entries carrying an action_id.
EntriesFor(action_id) == Cardinality({i \in 1..Len(entries) : entries[i].action_id = action_id})

\* C2: by the time a guarded call has returned or raised, exactly one audit
\* entry with its action_id is in the log; once all the calls of the run
\* are over the log holds one entry per intent handed in, with distinct ids.
C2_ExactlyOneAuditEntry ==
    /\ \A t \in Threads :
           call[t].pc \in {"refused", "returned", "raised", "failed"} =>
               EntriesFor(call[t].intent.action_id) = 1
    /\ (\A t \in Threads : call[t].pc \in {"idle"} \cup Terminal) =>
           /\ Len(entries) = Len(handed)
           /\ \A i, j \in 1..Len(entries) :
                  i # j => entries[i].action_id # entries[j].action_id

\* The positions of the enabled evaluators among the first n of the pipeline.
EnabledUpTo(n) == SelectSeq([k \in 1..n |-> k], LAMBDA k : evaluators[k].enabled)

\* C3: in pipeline.evaluate a BLOCK result is the last of the list and ends
\* the loop, so that no evaluator placed after the blocking one (none of
\* greater priority in particular) is invoked for the intent; otherwise
\* every enabled evaluator met so far has been invoked in turn and its result
\* collected, up to the end of the pipeline.
C3_ShortCircuitOnBlock ==
    LET c == call["t1"]
        rs == c.eval_results
    IN  c.direct =>
            /\ Len(c.invoked) = Len(rs)
            /\ \A k \in 1..Len(rs) :
                   /\ rs[k].evaluator_name = evaluators[c.invoked[k]].name
                   /\ rs[k].verdict = "BLOCK" =>
                          /\ k = Len(rs)
                          /\ c.pc = "evaluated"
                          /\ c.invoked = EnabledUpTo(c.invoked[k])
            /\ (c.pc = "evaluate" => c.invoked = EnabledUpTo(c.i - 1))
            /\ (c.pc = "evaluated" /\ \A k \in 1..Len(rs) : rs[k].verdict # "BLOCK") =>
                   c.invoked = EnabledUpTo(Len(evaluators))

\* e2 blocked after e1 escalated; e3, enabled and of greater priority, was
\* not invoked.
C3_Witness ==
    LET c == call["t1"] IN
    /\ c.pc = "evaluated"
    /\ Len(evaluators) = 3
    /\ \A k \in 1..3 : evaluators[k].enabled
    /\ evaluators[3].priority > evaluators[2].priority
    /\ Len(c.eval_results) = 2
    /\ c.eval_results[1].verdict = "ESCALATE"
    /\ c.eval_results[2].verdict = "BLOCK"

\* The timestamps of a list that lie in the window of w ticks ending at s.
InWindow(timestamps, s, w) ==
    Cardinality({i \in 1..Len(timestamps) : timestamps[i] > s - w /\ timestamps[i] <= s})

\* The rate-limit bound for every key and every window end.
RateBound ==
    LET w == default_limit.period_seconds * TicksPerSecond IN
    \A key \in WindowKeys : \A s \in 0..(MaxTime + w) :
        InWindow(windows[key], s, w) <= default_limit.max_calls

\* C5, as stated: for every (agent_id, action_type) key and at every point of
\* every execution, the timestamps recorded by ALLOW results that lie within
\* any window of width w are at most k.
C5_RateBoundEveryExecution == RateBound

\* C5, amended: the bound holds at every point of the executions in which
\* the evaluate calls run one at a time.
C5_RateBoundSequential == ~overlapped => RateBound

\* One at a time, two calls were allowed at tick 0 and the third was blocked.
C5_Witness ==
    /\ ~overlapped
    /\ windows[<<"a1", "api.call">>] = <<0, 0>>
    /\ Len(handed) = 3
    /\ call["t1"].pc = "evaluated"
    /\ call["t1"].intent.action_id = 3
    /\ call["t1"].eval_results[1].verdict = "BLOCK"

\* C6, the budget check of a call: it refuses with BLOCK exactly when the
\* agent's spend or, with a task_id, the task's spend would exceed its cap.
C6_BudgetStep ==
    LET c == call["t1"]
        cost == c.intent.estimated_cost
        over == \/ agent_spend[c.intent.agent_id] + cost > per_agent_per_run
                \/ /\ c.intent.task_id # NoTask
                   /\ task_spend[c.intent.task_id] + cost > per_task_budget
    IN  (c.pc = "budget" /\ call'["t1"].pc # "budget") =>
            /\ over => call'["t1"].pc = "refused" /\ call'["t1"].refused_by.verdict = "BLOCK"
            /\ ~over => call'["t1"].pc # "refused"

\* C6, the run of five calls of cost 0.30 on one task.
C6_Scenario ==
    (/\ Len(handed) = 5
     /\ \A i \in 1..Len(handed) : handed[i].task_id = "T" /\ handed[i].estimated_cost = 3
     /\ call["t1"].pc \in Terminal) =>
        /\ Len(entries) = 5
        /\ \A i \in 1..3 : entries[i].verdict \in {"ALLOW", "WARN"}
        /\ \A i \in 4..5 : entries[i].verdict = "BLOCK"
        /\ get_task_spend("T") = 9

\* C6: when guarded calls complete one at a time, the budget check refuses a
\* call with BLOCK if and only if agent_spend + c > per_agent_per_run, or
\* task_id is set and task_spend + c > per_task; the recorded spends never
\* exceed the caps; five calls of 0.30 on a task capped at 1.00 end with
\* three allowed, two blocked and a task spend of 0.90.
C6_BudgetCaps ==
    /\ [][C6_BudgetStep]_vars
    /\ [](\A a \in Agents : get_agent_spend(a) <= per_agent_per_run)
    /\ [](\A k \in Tasks : get_task_spend(k) <= per_task_budget)
    /\ []C6_Scenario

\* The five calls of 0.30 are over: the last was refused on the task's cap
\* with the agent's cap not reached, and the spend is 0.90.
C6_Witness ==
    /\ Len(handed) = 5
    /\ \A i \in 1..Len(handed) : handed[i].task_id = "T" /\ handed[i].estimated_cost = 3
    /\ call["t1"].pc = "refused"
    /\ call["t1"].refused_by.reason = "Task budget exceeded"
    /\ call["t1"].func_calls = 0
    /\ task_spend["T"] = 9

\* Whether the cascade controller blocks an intent while no delegation is
\* counted: chain too deep, caller in the chain, or an agent twice in it.
CascadeBlocked(intent) ==
    LET chain == intent.instruction_chain IN
    \/ Len(chain) > max_depth
    \/ intent.agent_id \in Range(chain)
    \/ \E i, j \in 1..Len(chain) : i # j /\ chain[i] = chain[j]

\* C8, the step that refuses: one blocking entry for the intent is appended
\* and nothing of the evaluators, the ledgers or the snapshots changes.
C8_RefusalStep ==
    \A t \in Threads :
        (call[t].pc = "cascade" /\ CascadeBlocked(call[t].intent) /\ call'[t] # call[t]) =>
            /\ call'[t].pc = "refused"
            /\ entries' = Append(entries, [action_id |-> call[t].intent.action_id,
                                           agent_id |-> call[t].intent.agent_id,
                                           verdict |-> "BLOCK", error |-> FALSE])
            /\ UNCHANGED <<evaluators, budgetVars, costVars, rateVars, snapshots, action_log>>

\* C8: a guarded call whose intent the cascade controller blocks is refused
\* with no evaluator invoked, no evaluator-side state changed, no snapshot
\* captured and the operation not invoked, and a blocking audit entry is
\* recorded for it.
C8_CascadeBlockSkipsPipeline ==
    /\ [][C8_RefusalStep]_vars
    /\ [](\A t \in Threads :
            (call[t].pc # "idle" /\ CascadeBlocked(call[t].intent)) =>
                /\ call[t].pc \in {"cascade", "refused"}
                /\ call[t].invoked = <<>> /\ call[t].eval_results = <<>>
                /\ ~call[t].captured
                /\ call[t].intent.action_id \notin snapshots
                /\ call[t].func_calls = 0
                /\ call[t].pc = "refused" => EntriesFor(call[t].intent.action_id) = 1)

\* A call through a chain naming its own agent was refused while the rate
\* windows already held the other call's timestamp.
C8_Witness ==
    /\ call["t2"].pc = "refused"
    /\ call["t2"].intent.instruction_chain = <<"a1">>
    /\ call["t2"].refused_by.evaluator_name = "cascade_controller"
    /\ call["t1"].pc = "returned"
    /\ agent_windows["a1"] = <<0>>
    /\ Len(entries) = 2

\* C10: a call on a task to which more than 3 agents have contributed, whose
\* projected task spend exceeds 0.8 * per_task within the caps, gets ESCALATE
\* from the budget check, is refused and audited, and its operation is not
\* executed.
C10_GamingEscalateRefuses ==
    LET c == call["t1"] IN
    c.budget_result.verdict = "ESCALATE" =>
        /\ c.pc = "refused"
        /\ c.func_calls = 0
        /\ EntriesFor(c.intent.action_id) = 1

---------------------------------------------------------------------------
(* C11: a snapshot exists for an action_id exactly when its intent reached *)
(* the execution gate (cascade, budget and pipeline passed with a          *)
(* non-blocking verdict) with rollback enabled and a handler registered    *)
(* for its action type, and the snapshot was not removed since by a        *)
(* successful rollback, cleanup or clear; a refused intent has none.       *)

\* One step: a snapshot appears only for the call that stands between a
\* non-blocking verdict and the gate with rollback enabled and a handler;
\* such a call does not reach the gate without one; a call reaches the gate
\* past the capture only when rollback is off or no handler is registered;
\* a snapshot disappears only through rollback, cleanup or clear.
C11_SnapshotStep ==
    /\ \A a \in snapshots' \ snapshots :
           \E t \in Threads :
               /\ call[t].pc = "snapshot"
               /\ call[t].intent.action_id = a
               /\ call[t].enable_rollback
               /\ call[t].intent.action_type \in handlers
               /\ call[t].final.verdict \in {"ALLOW", "WARN"}
               /\ call[t].refused_by = None
    /\ \A t \in Threads :
           (call'[t].pc = "execute" /\ call[t].pc # "execute")
               => LET intent == call'[t].intent IN
                  (intent.action_id \in snapshots')
                      <=> (call'[t].enable_rollback /\ intent.action_type \in handlers)
    /\ \A a \in snapshots \ snapshots' : a \in removed' \ removed

\* No stored snapshot belongs to a refused intent, and every stored snapshot
\* belongs to an intent that reached the gate.
C11_SnapshotsReachedGate ==
    /\ \A k \in 1..Len(entries) :
           entries[k].verdict \in {"BLOCK", "ESCALATE", "DEFER"}
               => entries[k].action_id \notin snapshots
    /\ \A a \in snapshots :
           \/ a \in Range(action_log)
           \/ \E t \in Threads : call[t].intent.action_id = a /\ call[t].pc \in {"execute", "post"}

---------------------------------------------------------------------------
(* C12: when ActionGuard.rollback(action_id) returns true, the handler's    *)
(* restore was called with the captured snapshot, the snapshot is gone and *)
(* the audit entry of that action_id has rolled_back = true.               *)

C12_RollbackMarksEntry ==
    \A t \in Threads :
        (rb[t].op = "rollback" /\ rb[t].pc = "done" /\ rb[t].results = <<TRUE>>)
            => /\ rb[t].action_id \in DOMAIN restores
               /\ rb[t].action_id \notin snapshots
               /\ rb[t].action_id \in rolled_back

---------------------------------------------------------------------------
(* C13: over any interleaving of rollback, rollback_last and rollback_task *)
(* calls, concurrent ones included, an entry's rolled_back flag goes from  *)
(* false to true at most once and never back, and the handler's restore    *)
(* succeeds at most once for the snapshot of an action.                    *)

C13_FlagStep == rolled_back \subseteq rolled_back'

C13_RestoredOnce == \A a \in DOMAIN restores : restores[a] <= 1

C13_RollbackAtMostOnce == []C13_RestoredOnce /\ [][C13_FlagStep]_vars

---------------------------------------------------------------------------
(* C14: rollback_action does not raise; it returns false, keeps the        *)
(* snapshot and leaves rolled_back alone when there is no snapshot, when   *)
(* no handler is registered for the action type, when restore returns      *)
(* false and when restore raises.                                          *)

\* The caller of rollback_action got False for the action_id.
C14_GotFalse(before, after) ==
    IF before.op = "rollback" THEN after.pc = "done" /\ after.results = <<FALSE>>
    ELSE IF before.op = "last" THEN after.results = Append(before.results, FALSE)
    ELSE after.report.failed = Append(before.report.failed, before.action_id)

C14_FailureStep ==
    \A t \in Threads :
        LET c == rb[t]
            no_snapshot == c.pc = "get" /\ c.action_id \notin snapshots
            no_handler == c.pc = "restore"
                              /\ EntryOf(c.action_id).action_type \notin handlers
            restore_failed == c.pc = "restore" /\ rb'[t].pc # "remove"
        IN  (rb'[t] # c /\ (no_snapshot \/ no_handler \/ restore_failed))
                => /\ C14_GotFalse(c, rb'[t])
                   /\ snapshots' = snapshots
                   /\ rolled_back' = rolled_back

C14_NeverRaises == \A t \in Threads : rb[t].pc # "raised"

---------------------------------------------------------------------------
(* C15: rollback_task goes through the logged entries of the task from the *)
(* newest timestamp to the oldest; the report's total is the number of     *)
(* logged entries of the task and every such action_id is in exactly one   *)
(* of rolled_back, failed and skipped: skipped exactly when the entry was  *)
(* flagged rolled back or its action type has no handler, rolled_back      *)
(* exactly when its rollback succeeded, failed exactly when it was         *)
(* attempted and did not succeed.                                          *)

\* The logged action_ids of a task.
C15_TaskIds(task_id) ==
    {a \in Range(action_log) : EntryOf(a).task_id = task_id}

C15_Filed(report) == report.rolled_back \o report.failed \o report.skipped

C15_TaskStep ==
    LET c == rb["t1"]
        d == rb'["t1"]
        a == Head(c.queue)
    IN  /\ (d.op = "task" /\ d # c /\ c.pc \in {"idle", "done"})
               => /\ Range(d.queue) = C15_TaskIds(d.report.task_id)
                  /\ d.report.total_actions = Cardinality(C15_TaskIds(d.report.task_id))
                  /\ Len(d.queue) = d.report.total_actions
                  /\ C15_Filed(d.report) = <<>>
        /\ (c.op = "task" /\ c.pc = "next" /\ c.queue # <<>> /\ d # c)
               => /\ \A k \in 2..Len(c.queue) : Timestamp(a) > Timestamp(c.queue[k])
                  /\ d.queue = Tail(c.queue)
                  /\ IF a \in rolled_back \/ EntryOf(a).action_type \notin handlers
                     THEN d.report = [c.report EXCEPT !.skipped = Append(@, a)]
                     ELSE d.report = c.report /\ d.pc = "get" /\ d.action_id = a
        /\ (c.op = "task" /\ c.pc \in {"get", "restore", "remove"} /\ d.pc = "next")
               => IF c.pc = "remove"
                  THEN /\ d.report = [c.report EXCEPT !.rolled_back = Append(@, c.action_id)]
                       /\ c.action_id \in rolled_back'
                  ELSE /\ d.report = [c.report EXCEPT !.failed = Append(@, c.action_id)]
                       /\ rolled_back' = rolled_back

\* When rollback_task returns, the three lists hold the task's entries, each
\* once.
C15_ReportComplete ==
    LET c == rb["t1"] IN
    (c.op = "task" /\ c.pc = "done")
        => /\ Range(C15_Filed(c.report)) = C15_TaskIds(c.report.task_id)
           /\ Len(C15_Filed(c.report)) = c.report.total_actions
           /\ ~HasDuplicate(C15_Filed(c.report))

---------------------------------------------------------------------------
(* C16: rollback_last walks the log from the newest entry to the oldest,   *)
(* keeps the entries of agent_id if one is given, and rolls back the first *)
(* n rollback-eligible ones: those not already rolled back whose action    *)
(* type has a handler.                                                     *)

\* An entry that can be rolled back.
C16_Eligible(a) == a \notin rolled_back /\ EntryOf(a).action_type \in handlers

\* The entries rollback_last(n, agent_id) sets out to roll back.
C16_LastStep ==
    LET c == rb["t1"]
        d == rb'["t1"]
        newest_first == [k \in 1..Len(action_log) |-> action_log[Len(action_log) + 1 - k]]
        mine == SelectSeq(newest_first,
                          LAMBDA a : d.agent_id = NoAgent \/ EntryOf(a).agent_id = d.agent_id)
        eligible == SelectSeq(mine, C16_Eligible)
    IN  (d.op = "last" /\ d # c /\ c.pc \in {"idle", "done"})
            => d.queue = SubSeq(eligible, 1, IF d.n < Len(eligible) THEN d.n ELSE Len(eligible))

C16_RollbackLastEligible == [][C16_LastStep]_vars

---------------------------------------------------------------------------
(* C17: in every audit entry handed to an exporter, for allowed, errored   *)
(* and refused calls alike, no value under a sensitive key, at any nesting *)
(* depth of the parameters, equals the value the intent held there.        *)

\* Whether a value under a sensitive key of the intent's parameters is
\* still there in the entry's parameters, in nested dicts and in the dicts
\* of lists.
RECURSIVE C17_Leaks(_, _)
C17_Leaks(sanitized, raw) ==
    \E key \in DOMAIN raw \cap DOMAIN sanitized :
        \/ Lower(key) \in sensitive_keys /\ sanitized[key] = raw[key]
        \/ /\ Lower(key) \notin sensitive_keys
           /\ raw[key].kind = "dict" /\ sanitized[key].kind = "dict"
           /\ C17_Leaks(sanitized[key].d, raw[key].d)
        \/ /\ Lower(key) \notin sensitive_keys
           /\ raw[key].kind = "list" /\ sanitized[key].kind = "list"
           /\ \E k \in 1..Len(raw[key].l) :
                  /\ k <= Len(sanitized[key].l)
                  /\ raw[key].l[k].kind = "dict" /\ sanitized[key].l[k].kind = "dict"
                  /\ C17_Leaks(sanitized[key].l[k].d, raw[key].l[k].d)

C17_NoSecretExported ==
    \A x \in ExporterNames :
        \A k \in 1..Len(exported[x]) :
            ~C17_Leaks(exported[x][k].parameters,
                       handed[exported[x][k].action_id].parameters)

---------------------------------------------------------------------------
(* C18: whatever exporters are registered and whichever of them raise,     *)
(* AuditLog.write appends the entry to the log, calls export once on every *)
(* registered exporter with that entry, and does not raise.                *)

\* How many times an exporter received an entry.
C18_Exports(x, entry) ==
    Cardinality({k \in 1..Len(exported[x]) : exported[x][k] = entry})

\* A write begins by appending its entry, and when it ends every registered
\* exporter has received the entry once.
C18_WriteStep ==
    \A t \in Threads :
        /\ (writer'[t].pc = "evict" /\ writer[t].pc # "evict")
               => /\ Len(entries') = Len(entries) + 1
                  /\ entries'[Len(entries')] = writer'[t].entry
        /\ (writer'[t].pc = "done" /\ writer[t].pc # "done")
               => \A k \in 1..Len(exporters) :
                      Cardinality({j \in 1..Len(exported'[exporters[k]]) :
                                       exported'[exporters[k]][j] = writer'[t].entry}) = 1

C18_NeverRaises == \A t \in Threads : writer[t].pc # "raised"

C18_ExportersIsolated == []C18_NeverRaises /\ [][C18_WriteStep]_vars

\* A write is over with two exporters registered, the first of which
\* raised, and the second received the entry.
C18_Witness ==
    \E t \in Threads :
        /\ writer[t].pc = "done"
        /\ Len(exporters) = 2
        /\ writer[t].failures >= 1
        /\ C18_Exports(exporters[2], writer[t].entry) = 1
        /\ \E k \in 1..Len(entries) : entries[k] = writer[t].entry

---------------------------------------------------------------------------
(* C19: after n audit writes, in sequence or interleaved, the log holds    *)
(* min(n, max_entries) entries and they are the most recently written ones *)
(* in write order.                                                         *)

C19_NewestKept ==
    (\A t \in Threads : writer[t].pc \notin {"evict", "store"})
        => LET n == Len(written)
               kept == IF n < audit_max THEN n ELSE audit_max
           IN  entries = SubSeq(written, n - kept + 1, n)

---------------------------------------------------------------------------
(* C20: when the guarded operation raises, the gate catches the exception, *)
(* the audit entry of the call, with the error in its error field, is      *)
(* appended to the log before the exception leaves the guarded call, the   *)
(* exception is then re-raised, and the operation was called once.         *)

C20_RaiseStep ==
    \A t \in Threads :
        LET c == call[t]
            d == call'[t]
        IN  \* the gate catches: the call goes on to the bookkeeping
            /\ (c.pc = "execute" /\ d # c /\ d.error)
                   => d.pc = "post" /\ d.func_calls = 1
            \* the entry is written in the step that re-raises
            /\ (c.pc = "post" /\ c.error /\ d # c)
                   => /\ d.pc = "raised"
                      /\ d.func_calls = 1
                      /\ entries' = Append(entries,
                             [action_id |-> c.intent.action_id,
                              agent_id |-> c.intent.agent_id,
                              verdict |-> c.final.verdict, error |-> TRUE])
            \* nothing raises the operation's error but that step
            /\ (d.pc = "raised" /\ c.pc # "raised") => (c.pc = "post" /\ c.error)

\* A call that raised the operation's error called it once and left its
\* entry, with the error, in the log.
C20_Raised ==
    \A t \in Threads :
        call[t].pc = "raised"
            => /\ call[t].func_calls = 1
               /\ \E k \in 1..Len(entries) :
                      /\ entries[k].action_id = call[t].intent.action_id
                      /\ entries[k].error

C20_ErrorAuditedThenRaised == []C20_Raised /\ [][C20_RaiseStep]_vars

\* A guarded call raised the error of its operation.
C20_Witness ==
    \E t \in Threads :
        /\ call[t].pc = "raised"
        /\ call[t].func_calls = 1
        /\ \E k \in 1..Len(entries) :
               entries[k].action_id = call[t].intent.action_id /\ entries[k].error

---------------------------------------------------------------------------
(* C21 .. C30                                                              *)

\* C21: a guarded call raises to its caller only a structured refusal or
\* the operation's own exception; every other failure during the call (here
\* the rollback handler's capture raising) is absorbed and never leaves the
\* guarded call.
C21_OnlyRefusalOrOwnError ==
    \A t \in Threads :
        (~call[t].direct /\ call[t].pc \in Terminal)
            => call[t].pc \in {"refused", "returned", "raised"}


\* Whether evaluating the policy raises inside the engine.
C22_Raises(policy) == policy.matches /\ policy.compiled /\ policy.condition = "error"

C22_Sound(policy) == ~C22_Raises(policy)

\* C22: an error raised inside an evaluator never yields a BLOCK: a policy
\* whose condition raises is treated as not triggered (the engine returns
\* what it returns without that policy), and a human gate whose approval
\* callback raises returns no blocking result.
C22_ErrorNeverBlocks ==
    /\ ev_op = "policy_engine" =>
           ev_result.verdict =
               PolicyEngineEvaluate(SelectSeq(pe_policies, C22_Sound)).result.verdict
    /\ (ev_op = "human_gate" /\ hg_requires /\ hg_callback = "raises") =>
           ~is_blocking(ev_result.verdict)


\* The step in which the guarded call of thread t is refused.
C23_Refused(t) == call[t].pc # "refused" /\ call'[t].pc = "refused"

\* The profile after one violation: one more counted, the score 0.05 lower
\* but not below 0.
C23_Dipped(profile) ==
    [profile EXCEPT !.violation_count = @ + 1, !.trust_score = Max(0, @ - 1)]

\* C23 as stated: every guarded call that is refused records exactly one
\* violation for intent.agent_id in the trust ledger (violation_count rises
\* by 1, trust_score falls by 0.05, clamped at 0), and a step that refuses
\* no call records none.
C23_ViolationStep ==
    /\ \A t \in Threads :
           C23_Refused(t) =>
               get(profiles', call[t].intent.agent_id)
                   = C23_Dipped(get(profiles, call[t].intent.agent_id))
    /\ (\A t \in Threads : ~C23_Refused(t)) =>
           \A a \in DOMAIN profiles :
               /\ profiles'[a].violation_count = profiles[a].violation_count
               /\ profiles'[a].trust_score = profiles[a].trust_score

C23_EveryRefusalRecorded == [][C23_ViolationStep]_vars

\* C23 as amended: a refused call of an agent that is registered in the
\* trust ledger records exactly one violation for it and changes no other
\* profile; a refused call of an agent that is not registered records
\* nothing; a step that refuses no call records no violation.
C23_RegisteredStep ==
    /\ \A t \in Threads :
           LET a == call[t].intent.agent_id IN
           C23_Refused(t) =>
               IF a \in DOMAIN profiles
               THEN profiles' = [profiles EXCEPT ![a] = C23_Dipped(@)]
               ELSE profiles' = profiles
    /\ (\A t \in Threads : ~C23_Refused(t)) =>
           \A a \in DOMAIN profiles :
               /\ profiles'[a].violation_count = profiles[a].violation_count
               /\ profiles'[a].trust_score = profiles[a].trust_score

C23_RegisteredRefusalRecorded == [][C23_RegisteredStep]_vars

\* Two calls of the registered agent were refused: two violations are
\* counted and its score fell from 0.3 to 0.2.
C23_Witness ==
    /\ \A t \in Threads : call[t].pc = "refused" /\ call[t].intent.agent_id = "a1"
    /\ is_registered(profiles, "a1")
    /\ profiles["a1"].violation_count = 2
    /\ profiles["a1"].trust_score = 4


\* C24: after any sequence of register, update_trust_score (with any
\* delta), record_violation and record_action, the trust_score of every
\* agent of the ledger lies in [0, 1].
C24_ScoreInUnitInterval ==
    \A a \in DOMAIN profiles :
        profiles[a].trust_score >= 0 /\ profiles[a].trust_score <= 20

\* An agent with a violation counted stands at 1.0, another with two
\* violations and an action counted at 0.0.
C24_Witness ==
    /\ DOMAIN profiles = {"a1", "a2"}
    /\ profiles["a1"].trust_score = 20 /\ profiles["a1"].violation_count = 1
    /\ profiles["a2"].trust_score = 0 /\ profiles["a2"].violation_count = 2
    /\ profiles["a2"].action_count = 1


\* C26: in an execution without rollback, recredit or reset, the spend of
\* a task as get_task_spend reads it never decreases from one observation
\* to the next.
C26_TaskSpendStep == \A k \in Tasks : task_spend'[k] >= task_spend[k]

C26_TaskSpendNeverDecreases == [][C26_TaskSpendStep]_vars


\* The record_cost / add_spend calls in flight.
C29_InFlight == {t \in Threads : budget_call[t].pc \notin {"idle", "done"}}

\* C29: concurrent spend recordings are never lost: once the record_cost
\* and add_spend calls of a run are completed, agent_spend and task_spend
\* equal the sums of the costs handed in, and no two calls are ever inside
\* the ledger update at once (one mutex covers the maps).
C29_NoLostUpdate ==
    /\ Cardinality(C29_InFlight) <= 1
    /\ C29_InFlight = {} =>
           /\ \A a \in Agents : agent_spend[a] = ChargedTo(charges, "agent_id", a)
           /\ \A k \in Tasks : task_spend[k] = ChargedTo(charges, "task_id", k)


\* C25: the recording of the cost c of action id for agent a and task t,
\* followed by recredit(a, t, id), returns agent_spend[a] and task_spend[t]
\* to their values before the recording, removes the per-action cost record
\* of id and returns c.
C25_RecreditRestores ==
    (bm_op.op = "recredit" /\ bm_op.follows) =>
        /\ agent_spend[bm_op.agent_id] = bm_op.prior_agent
        /\ TaskSpendOf(task_spend, bm_op.task_id) = bm_op.prior_task
        /\ bm_op.action_id \notin DOMAIN action_costs
        /\ bm_op.returned = bm_op.cost


\* The step in which the guarded call of thread t is executed and recorded.
C27_Recorded(t) == call[t].pc = "post" /\ call'[t].pc \in {"returned", "raised"}

\* C27: spend is tracked only in the global budget manager: an executed
\* guarded call with estimated cost c adds c once to the manager's agent
\* and task ledgers, and the cost estimator's own ledgers are never
\* incremented; no other step changes a spend ledger.
C27_SpendStep ==
    /\ UNCHANGED <<ce_agent_spend, ce_task_spend>>
    /\ \A t \in Threads :
           LET intent == call[t].intent IN
           C27_Recorded(t) =>
               /\ agent_spend' =
                      [agent_spend EXCEPT ![intent.agent_id] = @ + intent.estimated_cost]
               /\ intent.task_id # NoTask =>
                      task_spend' =
                          [task_spend EXCEPT ![intent.task_id] = @ + intent.estimated_cost]
    /\ (\A t \in Threads : ~C27_Recorded(t)) => UNCHANGED <<agent_spend, task_spend>>

C27_OnlyGlobalLedger == [][C27_SpendStep]_vars


\* The number of evaluate calls that can run at once.
C28_Parallelism == Cardinality(Threads)

C30_SnapshotDurable ==
    sm_got.action_id \in DOMAIN sm_snapshots =>
        LET captured == sm_snapshots[sm_got.action_id]
            got == sm_got.snapshot
        IN  /\ got # NoSnapshot
            /\ got.action_id = captured.action_id
            /\ got.action_type = captured.action_type
            /\ got.captured_at = captured.captured_at
            /\ got.state = captured.state
            /\ got.metadata = captured.metadata

---------------------------------------------------------------------------
(* C31 .. C40                                                              *)

\* C31, first half: whenever a set_task_context region has just been left,
\* by return or by exception, at any nesting depth, the facade's default
\* agent is the one in force before that region was entered: that of the
\* enclosing region, or the constructor's default outside every region.
C31_DefaultRestored ==
    default_agent_id =
        IF context_stack = <<>> THEN "default"
        ELSE context_stack[Len(context_stack)].agent_id

\* C31, second half: a call made inside a region carries the region's
\* agent_id and task_id.
C31_Stamped ==
    (ctx_intent.action_id > 0 /\ ctx_region.task_id # NoTask)
        => /\ ctx_intent.agent_id = ctx_region.agent_id
           /\ ctx_intent.task_id = ctx_region.task_id

\* C31: on leaving a set_task_context(task_id, agent_id) region, normally
\* or by an exception, nested or not, the facade's defaults are the values
\* in force before the region was entered, and every guarded call made
\* inside the region is stamped with the region's agent_id and task_id.
C31_ContextStampsAndRestores == C31_DefaultRestored /\ C31_Stamped


\* Whether evaluate's loop, reaching the policy, evaluates its condition.
C32_Reached(policy) == policy.matches /\ policy.compiled

\* The load positions of the policies that trigger for the intent.
C32_Triggering == {i \in DOMAIN pe_policies :
                      C32_Reached(pe_policies[i]) /\ pe_policies[i].condition = "true"}

\* The first of them in load order.
C32_First == CHOOSE i \in C32_Triggering : \A j \in C32_Triggering : i <= j

C33_Succeeded(t) ==
    /\ call[t].pc = "post"
    /\ call'[t].pc = "returned"
    /\ call[t].func_calls = 1
    /\ ~call[t].error

\* C33: budget spend changes only through successfully executed actions: a
\* refused call and a call whose operation raises leave agent_spend and
\* task_spend as they were, and a call whose operation returned normally
\* adds its estimated cost to them, after the operation has run.
C33_SpendStep ==
    /\ \A t \in Threads :
           LET intent == call[t].intent IN
           C33_Succeeded(t) =>
               /\ agent_spend' =
                      [agent_spend EXCEPT ![intent.agent_id] = @ + intent.estimated_cost]
               /\ intent.task_id # NoTask =>
                      task_spend' =
                          [task_spend EXCEPT ![intent.task_id] = @ + intent.estimated_cost]
    /\ (\A t \in Threads : ~C33_Succeeded(t)) => UNCHANGED <<agent_spend, task_spend>>

C33_SpendOnlyOnSuccess == [][C33_SpendStep]_vars


\* The cost of the executed actions of the log that count against the
\* budget of id (an agent or a task): those not rolled back.
RECURSIVE C34_Counted(_, _, _)
C34_Counted(log, field, id) ==
    IF log = <<>> THEN 0
    ELSE LET intent == EntryOf(Head(log))
             counts == intent[field] = id /\ Head(log) \notin DOMAIN restores
         IN  (IF counts THEN intent.estimated_cost ELSE 0)
                 + C34_Counted(Tail(log), field, id)

\* No guarded call and no rollback call is under way.
C34_Quiet ==
    /\ \A t \in Threads : call[t].pc \in {"idle"} \cup Terminal
    /\ \A t \in Threads : rb[t].pc \in {"idle", "done"}

\* C34: after a successful rollback (rollback, rollback_last or
\* rollback_task) of an executed action with recorded cost c, agent_spend
\* and task_spend of its agent and task are reduced by c: between calls,
\* the ledgers hold the costs of the executed actions not rolled back.
C34_RollbackRecredits ==
    C34_Quiet =>
        /\ \A a \in Agents : agent_spend[a] = C34_Counted(action_log, "agent_id", a)
        /\ \A k \in Tasks : task_spend[k] = C34_Counted(action_log, "task_id", k)


\* The step in which the evaluate call of thread t returns the verdict.
C35_Returns(t, verdict) ==
    /\ call[t].pc \in {"evaluate", "rate_agent", "rate_record"}
    /\ Len(call'[t].eval_results) = Len(call[t].eval_results) + 1
    /\ call'[t].eval_results[Len(call'[t].eval_results)] =
           EvaluatorResult(verdict,
                           call'[t].eval_results[Len(call'[t].eval_results)].reason,
                           "rate_limiter")

\* C35: RateLimiter.evaluate appends a timestamp under the (agent, tool) key
\* and under the agent key exactly when it returns ALLOW; when it returns
\* BLOCK, on the per-tool or on the per-agent limit, neither window gains a
\* timestamp: a blocked call consumes no quota.
C35_RecordStep ==
    /\ \A t \in Threads :
           LET intent == call[t].intent
               key == <<intent.agent_id, intent.action_type>>
           IN  /\ C35_Returns(t, "ALLOW") =>
                      /\ windows' = [windows EXCEPT ![key] = Append(@, now)]
                      /\ agent_windows' =
                             [agent_windows EXCEPT ![intent.agent_id] = Append(@, now)]
               /\ C35_Returns(t, "BLOCK") =>
                      /\ \A k \in WindowKeys : Len(windows'[k]) <= Len(windows[k])
                      /\ \A a \in Agents : Len(agent_windows'[a]) <= Len(agent_windows[a])
    /\ (\A t \in Threads : ~C35_Returns(t, "ALLOW")) =>
           /\ \A k \in WindowKeys : Len(windows'[k]) <= Len(windows[k])
           /\ \A a \in Agents : Len(agent_windows'[a]) <= Len(agent_windows[a])

C35_BlockedConsumesNoQuota == [][C35_RecordStep]_vars

\* evaluate returned BLOCK on the per-agent limit after passing the
\* per-tool limit, and ALLOW before that: the agent's window holds the
\* limit's worth of timestamps and the tool's window fewer.
C35_Witness ==
    \E t \in Threads :
        LET c == call[t]
            key == <<c.intent.agent_id, c.intent.action_type>>
        IN  /\ c.pc = "evaluated"
            /\ c.eval_results # <<>>
            /\ c.eval_results[1].verdict = "BLOCK"
            /\ c.eval_results[1].reason = "Agent rate limit exceeded"
            /\ Len(windows[key]) < default_limit.max_calls
            /\ Len(agent_windows[c.intent.agent_id]) = default_limit.max_calls


\* C36: after any sequence of EvaluationPipeline.add calls (no position, an
\* integer index, 'after_<name>' or 'before_<name>') and remove calls,
\* evaluate runs the enabled evaluators in ascending priority order and
\* skips the disabled ones: the evaluators invoked so far are enabled, their
\* priorities ascend, and no enabled evaluator of a smaller priority than an
\* invoked one is left out.
C36_AscendingPriority ==
    LET c == call["t1"] IN
    c.direct =>
        /\ \A k \in 1..Len(c.invoked) : evaluators[c.invoked[k]].enabled
        /\ \A j, k \in 1..Len(c.invoked) :
               j < k => evaluators[c.invoked[j]].priority <= evaluators[c.invoked[k]].priority
        /\ \A k \in 1..Len(c.invoked) : \A m \in 1..Len(evaluators) :
               (evaluators[m].enabled
                    /\ evaluators[m].priority < evaluators[c.invoked[k]].priority)
                   => \E j \in 1..k : c.invoked[j] = m


\* C37, the cache: it holds at most max_in_memory snapshots, and the ones
\* evicted are older than the ones kept.
C37_CacheBounded ==
    /\ Cardinality(DOMAIN sm_snapshots) <= sm_max
    /\ \A kept \in DOMAIN sm_snapshots :
           \A gone \in DOMAIN sm_captured \ DOMAIN sm_snapshots : gone < kept

\* C37, get: the snapshot asked for, captured and not removed, was returned.
C37_StillReturned ==
    sm_got.action_id \in DOMAIN sm_captured =>
        /\ sm_got.snapshot # NoSnapshot
        /\ sm_got.snapshot.action_id = sm_got.action_id

\* C37: after every capture the in-memory cache holds at most max_in_memory
\* snapshots, the oldest being evicted over the cap, and every captured
\* snapshot not removed since is still returned by get(action_id), from the
\* backing store once it has left the cache.
C37_EvictedStillReturned == C37_CacheBounded /\ C37_StillReturned


\* C38, the lock: while a write is inside the exporters, another thread
\* that calls write appends its entry.
C38_AppendersNotStalled ==
    \A t \in Threads :
        writer[t].pc = "export" =>
            \A u \in Threads \ {t} :
                (writer[u].pc \in {"idle", "done"} /\ next_id <= MaxWrites) =>
                    ENABLED WriteAppend(u, {"write"}, {"allowed"},
                                        {[path |-> Str("/tmp/x")]}, MaxWrites)

\* C38, the copy: what an exporter holds is what it was given.
C38_ExportedUnaltered ==
    \A x \in ExporterNames :
        \A k \in 1..Len(exported[x]) : Fields(exported[x][k]) = given[x][k]

\* C38: exporter fan-out holds no audit-log mutex and hands each exporter an
\* immutable copy of the entry: while a write is stalled inside a slow
\* exporter the writes of other threads still append and complete, and a
\* later change to the logged entry (rolled_back set by a rollback) does
\* not alter what an exporter was given.
C38_FanOutOutsideLockWithCopy == C38_AppendersNotStalled /\ C38_ExportedUnaltered


\* The place of a store mutex in the lock ordering rule.
C39_Rank(lock) == CHOOSE i \in 1..Len(StoreMutexes) : StoreMutexes[i] = lock

C39_IsStoreMutex(lock) == \E i \in 1..Len(StoreMutexes) : StoreMutexes[i] = lock

\* C39, the stores: the store mutexes a thread holds together were taken
\* in the order trust, cascade, budget, audit.
C39_StoreMutexesInOrder ==
    \A t \in LockThreads :
        LET held == SelectSeq(lk_held[t], C39_IsStoreMutex)
        IN  \A i, j \in 1..Len(held) : i < j => C39_Rank(held[i]) < C39_Rank(held[j])

\* A thread is about to wait for the mutex of the snapshot cache.
C39_TakesCache(t) == Running(t) /\ Step(t) = Acquire("cache")

\* C39, the snapshot manager: no thread takes the cache mutex while it has
\* the backing store (a connection to the database) open.
C39_CacheBeforeStore ==
    \A t \in LockThreads : C39_TakesCache(t) => ~lk_conn[t]

\* No thread takes the cache mutex while a statement or an uncommitted
\* transaction of its connection locks the database.
C39_CacheOutsideTransaction ==
    \A t \in LockThreads :
        C39_TakesCache(t) => \A i \in 1..Len(lk_held[t]) : lk_held[t][i] # "store"

\* A running thread that is not waiting for a lock another thread holds.
C39_CanStep(t) ==
    Running(t) /\ (Step(t).op = "acquire" => Owner(Step(t).lock) = NoThread)

\* C39, the consequence: while calls are running, one of them can move.
C39_NoDeadlock ==
    (\E t \in LockThreads : Running(t)) => \E t \in LockThreads : C39_CanStep(t)

\* C39: no path of a guarded call or of a rollback holds more than one
\* store mutex at a time except in the order trust, cascade, budget, audit,
\* and the snapshot manager never takes its cache mutex while it holds the
\* backing store; consequently concurrent guarded calls and rollbacks whose
\* operations, handlers and exporters terminate do not deadlock.
C39_LockOrderNoDeadlock ==
    C39_StoreMutexesInOrder /\ C39_CacheBeforeStore /\ C39_NoDeadlock

\* A thread waits for the cache mutex while the other holds it.
C39_Contended ==
    \E t \in LockThreads :
        /\ C39_TakesCache(t)
        /\ Owner("cache") \in LockThreads \ {t}


\* A step of a dry-run evaluation: a call made through evaluate moves.
C40_DryRunStep ==
    \E t \in Threads : call[t]' # call[t] /\ call[t]'.direct

\* No rate-limit window gained a timestamp (pruning may drop old ones).
C40_NothingRecorded ==
    /\ \A key \in WindowKeys : Len(windows'[key]) <= Len(windows[key])
    /\ \A agent \in Agents : Len(agent_windows'[agent]) <= Len(agent_windows[agent])

\* C40: a dry-run evaluation changes no shared state: the audit log, the
\* budget ledgers, the trust ledger and the snapshots are the same before
\* and after it, and no rate-limit window has a call recorded in it, so dry
\* runs cannot change the verdict of a later call.
C40_DryRunChangesNothing ==
    [][C40_DryRunStep =>
           /\ C40_NothingRecorded
           /\ UNCHANGED <<storeVars, budgetVars, costVars>>]_vars

\* The same without the rate-limit windows: the stores and the ledgers.
C40_DryRunLeavesStores ==
    [][C40_DryRunStep => UNCHANGED <<storeVars, budgetVars, costVars>>]_vars

\* Only dry runs were made, and every one of them was allowed.
C40_DryRunsAllowed ==
    \A t \in Threads :
        \A k \in 1..Len(call[t].eval_results) : call[t].eval_results[k].verdict = "ALLOW"

=============================================================================
